---------------------------- MODULE Spec2Model ----------------------------
(***************************************************************************)
(* Task-lifecycle engine of the Homebase app: the Backlog ("Later"), the   *)
(* on-deck list, the Daily Rhythm routine, the completion archive and the  *)
(* single-slot undo, as implemented by HomebaseScreen (src/unnamed/        *)
(* part_002, first copy), LaterScreen, ReviewScreen and OnDeckScreen over  *)
(* one AsyncStorage key-value store.                                       *)
(*                                                                         *)
(* Representation.                                                         *)
(*  - A title is a sequence of one-character strings, so that normTitle    *)
(*    (trim + toLowerCase) is computed, not assumed.                       *)
(*  - A DateKey "YYYY-MM-DD" is the ordinal of its day (1, 2, ...): the    *)
(*    code only compares DateKeys (===, <, <=) and for zero-padded keys    *)
(*    the string order is the day order.  NoDue stands for an absent       *)
(*    (undefined, falsy) dueDateKey.                                       *)
(*  - A stored value is [kind, v]: kind "none" is a missing key (getItem   *)
(*    returns null), kind "json" a value that JSON.parse reads back as v.  *)
(*  - Fields the lifecycle logic never reads (DraftTask.bucket, urgency)   *)
(*    are left out.                                                        *)
(***************************************************************************)
EXTENDS Integers, Sequences, FiniteSets, TLC

(***************************************************************************)
(* Bounds of the model.                                                    *)
(***************************************************************************)
MaxDay == 2
MaxLater == 2
MaxDeck == 3
MaxArchive == 2
MaxDrafts == 2

NoDue == 0
Days == 1..MaxDay
DueKeys == {NoDue} \cup Days

(***************************************************************************)
(* Strings.                                                                *)
(***************************************************************************)
UpperChars == <<"A", "B", "C", "D", "E", "F", "G", "H", "I", "J", "K", "L", "M",
                "N", "O", "P", "Q", "R", "S", "T", "U", "V", "W", "X", "Y", "Z">>
LowerChars == <<"a", "b", "c", "d", "e", "f", "g", "h", "i", "j", "k", "l", "m",
                "n", "o", "p", "q", "r", "s", "t", "u", "v", "w", "x", "y", "z">>

Range(s) == {s[i] : i \in 1..Len(s)}

IsSpace(c) == c \in {" ", "\t", "\n"}

(* String.prototype.toLowerCase on one character: a table, built once. *)
OtherChars == {" ", "\t", "\n"}

LowerTable ==
  [c \in Range(UpperChars) \cup Range(LowerChars) \cup OtherChars |->
     IF \E i \in 1..Len(UpperChars) : UpperChars[i] = c
     THEN LowerChars[CHOOSE i \in 1..Len(UpperChars) : UpperChars[i] = c]
     ELSE c]

LowerChar(c) == LowerTable[c]

toLowerCase(s) == [i \in 1..Len(s) |-> LowerChar(s[i])]

RECURSIVE trimStart(_)
trimStart(s) ==
  IF s # <<>> /\ IsSpace(Head(s)) THEN trimStart(Tail(s)) ELSE s

RECURSIVE trimEnd(_)
trimEnd(s) ==
  IF s # <<>> /\ IsSpace(s[Len(s)]) THEN trimEnd(SubSeq(s, 1, Len(s) - 1)) ELSE s

trim(s) == trimEnd(trimStart(s))

normTitle(s) == toLowerCase(trim(s))

(***************************************************************************)
(* Sequence helpers (Array.prototype.map / filter / some).                 *)
(***************************************************************************)
Filter(s, Test(_)) == SelectSeq(s, Test)

Count(s, Test(_)) == Len(SelectSeq(s, Test))

(***************************************************************************)
(* Data.                                                                   *)
(***************************************************************************)
NoCategory == "undefined"

Task(id, title, done, category, dueDateKey, plan) ==
  [id |-> id, title |-> title, done |-> done, category |-> category,
   dueDateKey |-> dueDateKey, plan |-> plan]

DraftTask(id, title, category, dueDateKey) ==
  [id |-> id, title |-> title, category |-> category, dueDateKey |-> dueDateKey]

RoutineItem(id, title, done) == [id |-> id, title |-> title, done |-> done]

ArchivedTask(id, title, category, completedDateKey) ==
  [id |-> id, title |-> title, category |-> category,
   completedDateKey |-> completedDateKey]

DEFAULT_ON_DECK ==
  << Task(1, <<"C","a","l","l"," ","d","e","n","t","i","s","t">>,
          FALSE, "Calls", NoDue, "upnext"),
     Task(2, <<"S","i","g","n"," ","p","e","r","m","i","s","s","i","o","n",
               " ","s","l","i","p">>,
          FALSE, "Kids", NoDue, "today"),
     Task(3, <<"R","e","t","u","r","n"," ","A","m","a","z","o","n"," ",
               "p","a","c","k","a","g","e">>,
          FALSE, "Errands", NoDue, "upnext") >>

DEFAULT_RHYTHM ==
  << RoutineItem(101, "Make beds", FALSE),
     RoutineItem(102, "Kitchen reset", FALSE),
     RoutineItem(103, "Move my body", FALSE) >>

(* Stored values. *)
None == [kind |-> "none", v |-> <<>>]
NoneKey == [kind |-> "none", v |-> NoDue]
Json(v) == [kind |-> "json", v |-> v]

(* A stored value that JSON.parse rejects. *)
Bad == [kind |-> "bad", v |-> <<>>]

(* raw ? JSON.parse(raw) : dflt, inside a try whose catch yields dflt. *)
ParseOr(raw, dflt) == IF raw.kind = "json" THEN raw.v ELSE dflt

(***************************************************************************)
(* Pure functions of the screens.                                          *)
(***************************************************************************)
(* Faulty variant: the new id depends on the old one. *)
normalizeOnDeckIdsShift(tasks) ==
  [idx \in 1..Len(tasks) |-> [tasks[idx] EXCEPT !.id = @ + idx]]

normalizeOnDeckIds(tasks) ==
  [idx \in 1..Len(tasks) |-> [tasks[idx] EXCEPT !.id = idx]]

TitleSet(tasks) == {normTitle(tasks[i].title) : i \in 1..Len(tasks)}

(* d => Task in the .map of autosurfaceDueLaterToOnDeck / addReviewToHomebase *)
PlanFor(dueDateKey, tk) ==
  IF dueDateKey # NoDue /\ dueDateKey = tk THEN "today" ELSE "upnext"

DraftToTask(d, tk) ==
  Task(999999, d.title, FALSE, d.category, d.dueDateKey, PlanFor(d.dueDateKey, tk))

MapDrafts(ds, tk) == [i \in 1..Len(ds) |-> DraftToTask(ds[i], tk)]

IsDue(t, tk) == t.dueDateKey # NoDue /\ t.dueDateKey <= tk

(* Faulty variant: an item due today is not yet due. *)
IsDueStrict(t, tk) == t.dueDateKey # NoDue /\ t.dueDateKey < tk


(* autosurfaceDueLaterToOnDeck: the due items of Later that pass the title   *)
(* dedup, as on-deck tasks.                                                  *)
SurfaceToAdd(due, existingOnDeck, tk) ==
  LET deckTitleSet == TitleSet(existingOnDeck)
  IN  MapDrafts(Filter(due, LAMBDA d : normTitle(d.title) \notin deckTitleSet), tk)

(* Faulty variant: items due today stay in Later. *)
RemainingLaterStrict(existingLater, tk) ==
  Filter(existingLater, LAMBDA t : ~IsDueStrict(t, tk))

RemainingLater(existingLater, tk) ==
  Filter(existingLater, LAMBDA t : ~IsDue(t, tk))

autosurfaceDueLaterToOnDeck(existingOnDeck, existingLater, tk) ==
  LET due == Filter(existingLater, LAMBDA t : IsDue(t, tk))
  IN  IF Len(due) = 0
      THEN [nextOnDeck |-> existingOnDeck, nextLater |-> existingLater,
            moved |-> FALSE]
      ELSE [nextOnDeck |->
              normalizeOnDeckIds(SurfaceToAdd(due, existingOnDeck, tk)
                                 \o existingOnDeck),
            nextLater |-> RemainingLater(existingLater, tk),
            moved |-> TRUE]

(* Faulty variant: no title dedup. *)
ReviewToAddNoDedup(reviewDrafts, existingOnDeck, tk) == MapDrafts(reviewDrafts, tk)

(* addReviewToHomebase: toAdd and nextOnDeck. *)
ReviewToAdd(reviewDrafts, existingOnDeck, tk) ==
  LET onDeckTitleSet == TitleSet(existingOnDeck)
  IN  MapDrafts(Filter(reviewDrafts,
                       LAMBDA d : normTitle(d.title) \notin onDeckTitleSet), tk)

ReviewNextOnDeck(reviewDrafts, existingOnDeck, tk) ==
  normalizeOnDeckIds(ReviewToAdd(reviewDrafts, existingOnDeck, tk) \o existingOnDeck)

(* ReviewScreen.submit: as addReviewToHomebase, with category "Someday"     *)
(* stored as undefined.                                                     *)
SubmitCategory(category) == IF category = "Someday" THEN NoCategory ELSE category

SubmitToAdd(drafts, existingOnDeck, tk) ==
  LET onDeckTitleSet == TitleSet(existingOnDeck)
      kept == Filter(drafts, LAMBDA d : normTitle(d.title) \notin onDeckTitleSet)
  IN  [i \in 1..Len(kept) |->
         Task(999999, kept[i].title, FALSE, SubmitCategory(kept[i].category),
              kept[i].dueDateKey, PlanFor(kept[i].dueDateKey, tk))]

SubmitNextOnDeck(drafts, existingOnDeck, tk) ==
  normalizeOnDeckIds(SubmitToAdd(drafts, existingOnDeck, tk) \o existingOnDeck)

(* LaterScreen.moveToOnDeck: add and nextOnDeck. *)
MoveAdd(item, plan, existing) ==
  IF normTitle(item.title) \in TitleSet(existing)
  THEN <<>>
  ELSE << Task(999999, item.title, FALSE, item.category, item.dueDateKey, plan) >>

MoveNextOnDeck(item, plan, existing) ==
  normalizeOnDeckIds(MoveAdd(item, plan, existing) \o existing)

(***************************************************************************)
(* State.                                                                  *)
(***************************************************************************)
VARIABLES
  storage,             \* AsyncStorage: onDeck, later, rhythm, rhythmLastReset, archive
  clock,               \* the wall clock's day: todayKeyLocal() reads it
  archSeq,             \* number of archive ids handed out (Date.now() + random)
  onDeckTasks,         \* HomebaseScreen state
  laterTasks,
  dailyRhythm,
  completedTodayTotal,
  undoVisible,
  undoPayload,
  undoTimerRef,        \* handle of the last setTimeout of showUndo, 0 = null
  timers,              \* handles of the undo timers that are scheduled
  loaded,
  todayKey,            \* useMemo(() => todayKeyLocal(NOW)), fixed at mount
  hist,                \* history: what the last handler was and did
  merge,               \* the merge harness: inputs and result of one merge
  inflight,            \* an auto-surface run suspended at its awaited writes
  storageLoadError,    \* useState<string | null>: what the hydration effect caught
  hydration,           \* the hydration effect's Promise.race: idle, racing, timedout
  prevAllRhythmDoneRef, \* useRef(false): the routine was all done at the last effect run
  runs                 \* handler runs suspended at an await, each with its locals

homeVars == <<onDeckTasks, laterTasks, dailyRhythm, completedTodayTotal,
              undoVisible, undoPayload, undoTimerRef, timers, loaded, todayKey>>

appVars ==
  <<storage, clock, archSeq, homeVars, hist, inflight, storageLoadError, hydration, prevAllRhythmDoneRef, runs>>

vars ==
  <<storage, clock, archSeq, homeVars, hist, merge, inflight, storageLoadError,
    hydration, prevAllRhythmDoneRef, runs>>

NoTimer == 0

NoError == "null"

NoTask == Task(0, <<>>, FALSE, NoCategory, NoDue, "upnext")

NoPayload == [set |-> FALSE, task |-> NoTask, archivedId |-> 0]

UndoPayload(task, archivedId) == [set |-> TRUE, task |-> task, archivedId |-> archivedId]

NoCompletion == [task |-> NoTask, archive |-> None, total |-> 0]

(* hist.op is the last handler that ran; the other fields say what it did:  *)
(* nDue/nAdded: due Later items found / tasks added by an auto-surface run; *)
(* reset: the run reset the Daily Rhythm; mustReset: the persisted          *)
(* lastResetDate differed from today when the run read it; imm: an undo     *)
(* that directly followed its completion; c: the state before that          *)
(* completion; pending: an undo payload was set when the handler started;   *)
(* expired: archive ids whose undo timer fired; stale: the on-deck list in  *)
(* memory differed from the persisted one when the handler started; burst: *)
(* the handler's render made the [dailyRhythm, loaded] effect show the     *)
(* confetti.                                                               *)
Hist(op, nDue, nAdded, reset, mustReset, pending, imm, c, expired, stale) ==
  [op |-> op, nDue |-> nDue, nAdded |-> nAdded, reset |-> reset,
   mustReset |-> mustReset, pending |-> pending, imm |-> imm, c |-> c,
   expired |-> expired, stale |-> stale, burst |-> FALSE]

HistOp(op) ==
  Hist(op, 0, 0, FALSE, FALSE, FALSE, FALSE, NoCompletion, hist.expired, FALSE)

EmptyStorage ==
  [onDeck |-> None, later |-> None, rhythm |-> None,
   rhythmLastReset |-> NoneKey, archive |-> None]

NoResult ==
  [deck |-> <<>>, later |-> <<>>, rhythm |-> <<>>, reset |-> FALSE, nDue |-> 0,
   nAdded |-> 0, total |-> 0, storage |-> EmptyStorage]

(* run: which effect is suspended; pending: the setItem calls of its        *)
(* Promise.all not yet settled, in the order issued; failed: one rejected;  *)
(* due: the Later items that were due when it read the store; r: what it    *)
(* computed from that read.                                                 *)
NoRun ==
  [run |-> "none", pending |-> <<>>, failed |-> FALSE, due |-> <<>>,
   r |-> NoResult]

IdleMerge ==
  [kind |-> "off", new |-> <<>>, existing |-> <<>>, tk |-> 1,
   plan |-> "upnext", out |-> <<>>]

(* The state of a freshly mounted HomebaseScreen (the useState defaults). *)
Mounted ==
  /\ onDeckTasks = DEFAULT_ON_DECK
  /\ laterTasks = <<>>
  /\ dailyRhythm = DEFAULT_RHYTHM
  /\ completedTodayTotal = 0
  /\ undoVisible = FALSE
  /\ undoPayload = NoPayload
  /\ undoTimerRef = NoTimer
  /\ timers = {}
  /\ loaded = FALSE
  /\ storageLoadError = NoError
  /\ hydration = "idle"
  /\ prevAllRhythmDoneRef = FALSE
  /\ runs = {}

(***************************************************************************)
(* Merge harness: the merge computations of the three insert paths on      *)
(* bounded inputs.                                                         *)
(***************************************************************************)
TitleA == <<"a">>
TitleA2 == <<" ", "A">>
TitleB == <<"b">>
Titles == {TitleA, TitleA2, TitleB}

DraftCategory(title) == IF title = TitleB THEN "Someday" ELSE "Ideas"

SeqsUpTo(S, n) == UNION {[1..k -> S] : k \in 0..n}

(* Drafts / Later items: the id is the position in its list. *)
DraftLists(n) ==
  LET shapes == SeqsUpTo(Titles \X DueKeys, n)
  IN  { [i \in 1..Len(sh) |->
           DraftTask(i, sh[i][1], DraftCategory(sh[i][1]), sh[i][2])]
        : sh \in shapes }

(* On-deck lists as the code persists them: ids 1..N in order. *)
DeckLists(n) ==
  LET shapes == SeqsUpTo(Titles \X {"today", "upnext"}, n)
  IN  { [i \in 1..Len(sh) |-> Task(i, sh[i][1], FALSE, "Calls", NoDue, sh[i][2])]
        : sh \in shapes }

MergeIdle(new, existing, tk) ==
  [kind |-> "idle", new |-> new, existing |-> existing, tk |-> tk,
   plan |-> "upnext", out |-> <<>>]

InitMerge ==
  /\ storage = EmptyStorage
  /\ clock = 1
  /\ archSeq = 0
  /\ Mounted
  /\ todayKey = 1
  /\ hist = Hist("init", 0, 0, FALSE, FALSE, FALSE, FALSE, NoCompletion, {}, FALSE)
  /\ inflight = NoRun
  /\ \E new \in DraftLists(MaxDrafts), existing \in DeckLists(2), tk \in Days :
       merge = MergeIdle(new, existing, tk)

MergeReview ==
  /\ merge.kind = "idle"
  /\ merge' = [merge EXCEPT !.kind = "review",
                 !.out = ReviewNextOnDeck(merge.new, merge.existing, merge.tk)]
  /\ UNCHANGED appVars

MergeSubmit ==
  /\ merge.kind = "idle"
  /\ merge' = [merge EXCEPT !.kind = "submit",
                 !.out = SubmitNextOnDeck(merge.new, merge.existing, merge.tk)]
  /\ UNCHANGED appVars

MergeSurface ==
  /\ merge.kind = "idle"
  /\ merge' = [merge EXCEPT !.kind = "surface",
                 !.out = autosurfaceDueLaterToOnDeck(merge.existing, merge.new,
                                                     merge.tk).nextOnDeck]
  /\ UNCHANGED appVars

MergeMove ==
  /\ merge.kind = "idle"
  /\ Len(merge.new) >= 1
  /\ \E plan \in {"today", "upnext"} :
       merge' = [merge EXCEPT !.kind = "move", !.plan = plan,
                   !.out = MoveNextOnDeck(merge.new[1], plan, merge.existing)]
  /\ UNCHANGED appVars

NextMerge == MergeReview \/ MergeSubmit \/ MergeSurface \/ MergeMove

SpecMerge == InitMerge /\ [][NextMerge]_vars


(***************************************************************************)
(* HomebaseScreen: helpers.                                                *)
(***************************************************************************)
loadArchiveCountOnly(st, tk) ==
  Count(ParseOr(st.archive, <<>>), LAMBDA x : x.completedDateKey = tk)

computeRecap(archiveCount, rhythm) ==
  archiveCount + Count(rhythm, LAMBDA t : t.done)

resetRhythm(rhythm) == [i \in 1..Len(rhythm) |-> [rhythm[i] EXCEPT !.done = FALSE]]

(* Faulty variants: reset on every load / on none. *)
needsResetAlways(rawRhythmReset, rhythmKey) == TRUE

needsResetNever(rawRhythmReset, rhythmKey) == FALSE

needsReset(rawRhythmReset, rhythmKey) ==
  rawRhythmReset.kind = "none" \/ rawRhythmReset.v # rhythmKey

(* The [dailyRhythm, loaded] effect, confetti part: it returns at once      *)
(* while not loaded; else it shows the confetti when the routine is all    *)
(* done and the ref says it was not, and stores allDoneNow in the ref.     *)
allDoneNow(rhythm) ==
  Len(rhythm) > 0 /\ \A i \in 1..Len(rhythm) : rhythm[i].done

confettiBurst(isLoaded, wasAllDone, rhythm) ==
  isLoaded /\ ~wasAllDone /\ allDoneNow(rhythm)

rhythmEffectRef(isLoaded, wasAllDone, rhythm) ==
  IF isLoaded THEN allDoneNow(rhythm) ELSE wasAllDone

(* The three persistence effects ([onDeckTasks, loaded], [laterTasks,       *)
(* loaded], [dailyRhythm, loaded]): each writes its state once loaded.      *)
PersistEffects(st, isLoaded, deck, later, rhythm) ==
  IF isLoaded
  THEN [st EXCEPT !.onDeck = Json(deck), !.later = Json(later),
                  !.rhythm = Json(rhythm)]
  ELSE st

(* The awaited writes of an auto-surface run: both keys, when moved. *)
SurfaceWrites(st, surfaced) ==
  IF surfaced.moved
  THEN [st EXCEPT !.onDeck = Json(surfaced.nextOnDeck),
                  !.later = Json(surfaced.nextLater)]
  ELSE st

(* loadFromStorage: what it reads, computes and writes. *)
loadFromStorage(st, now, memoKey) ==
  LET deck0 == ParseOr(st.onDeck, DEFAULT_ON_DECK)
      later0 == ParseOr(st.later, <<>>)
      surfaced == autosurfaceDueLaterToOnDeck(deck0, later0, now)
      st1 == SurfaceWrites(st, surfaced)
      rhythm0 == ParseOr(st.rhythm, DEFAULT_RHYTHM)
      reset == needsReset(st.rhythmLastReset, now)
      rhythm == IF reset THEN resetRhythm(rhythm0) ELSE rhythm0
      st2 == IF reset
             THEN [st1 EXCEPT !.rhythm = Json(rhythm), !.rhythmLastReset = Json(now)]
             ELSE st1
  IN  [deck |-> surfaced.nextOnDeck, later |-> surfaced.nextLater,
       rhythm |-> rhythm, reset |-> reset,
       nDue |-> Len(later0) - Len(surfaced.nextLater),
       nAdded |-> Len(surfaced.nextOnDeck) - Len(deck0),
       total |-> computeRecap(loadArchiveCountOnly(st2, memoKey), rhythm),
       storage |-> st2]

(* The focus reconciliation of useFocusEffect. *)
focusReconcile(st, now, memoKey) ==
  LET deck0 == ParseOr(st.onDeck, <<>>)
      later0 == ParseOr(st.later, <<>>)
      surfaced == autosurfaceDueLaterToOnDeck(deck0, later0, now)
      st1 == SurfaceWrites(st, surfaced)
      rhythm == ParseOr(st.rhythm, DEFAULT_RHYTHM)
  IN  [deck |-> surfaced.nextOnDeck, later |-> surfaced.nextLater,
       rhythm |-> rhythm, reset |-> FALSE,
       nDue |-> Len(later0) - Len(surfaced.nextLater),
       nAdded |-> Len(surfaced.nextOnDeck) - Len(deck0),
       total |-> computeRecap(loadArchiveCountOnly(st1, memoKey), rhythm),
       storage |-> st1]

(* completeOnDeck: the archive it writes; the catch of a failed read or    *)
(* parse writes the new entry alone.                                       *)
archiveAfterCompletion(raw, archived, readFails) ==
  IF readFails \/ raw.kind = "bad"
  THEN <<archived>>
  ELSE <<archived>> \o ParseOr(raw, <<>>)

(* Faulty variant: the undone entry stays archived. *)
undoArchiveKeep(list, archivedId) == list

(* loadFromStorage parses the on-deck and the Later value outside any try: *)
(* a value JSON.parse rejects makes it throw before it sets anything.      *)
loadThrows(st) == st.onDeck.kind = "bad" \/ st.later.kind = "bad"

(* The focus effect parses inside one try whose catch ignores the error:   *)
(* on-deck and Later before the surfacing, the routine after it.           *)
focusThrowsEarly(st) == st.onDeck.kind = "bad" \/ st.later.kind = "bad"

focusThrowsLate(st) == st.rhythm.kind = "bad"

(* undoLastComplete: the archive without the undone entry. *)
undoArchive(list, archivedId) == Filter(list, LAMBDA x : x.id # archivedId)

(* Faulty variant: no clearTimeout, timers stack. *)
showUndoTimersStacked(pending, ref, handle) == pending \cup {handle}

(* showUndo: the scheduled timers after clearTimeout + setTimeout. *)
showUndoTimers(pending, ref, handle) == (pending \ {ref}) \cup {handle}

(***************************************************************************)
(* HomebaseScreen: the handlers, each with the effects it triggers.        *)
(***************************************************************************)
(* The hydration effect: loadFromStorage, then setLoaded(true), which runs *)
(* the persistence effects on the loaded state.                            *)
HydrationEffect ==
  /\ ~loaded
  /\ IF loadThrows(storage)
     THEN /\ storageLoadError' = "parse_error"
          /\ loaded' = TRUE
          /\ storage' = PersistEffects(storage, TRUE, onDeckTasks, laterTasks,
                                       dailyRhythm)
          /\ hist' = [Hist("load", 0, 0, FALSE,
                           storage.rhythmLastReset # Json(clock), FALSE, FALSE,
                           NoCompletion, hist.expired, FALSE)
                        EXCEPT !.burst = confettiBurst(TRUE, prevAllRhythmDoneRef,
                                                       dailyRhythm)]
          /\ prevAllRhythmDoneRef' =
               rhythmEffectRef(TRUE, prevAllRhythmDoneRef, dailyRhythm)
          /\ UNCHANGED <<onDeckTasks, laterTasks, dailyRhythm, completedTodayTotal>>
     ELSE LET r == loadFromStorage(storage, clock, todayKey)
          IN  /\ onDeckTasks' = r.deck
              /\ laterTasks' = r.later
              /\ dailyRhythm' = r.rhythm
              /\ completedTodayTotal' = r.total
              /\ loaded' = TRUE
              /\ storageLoadError' = NoError
              /\ storage' = PersistEffects(r.storage, TRUE, r.deck, r.later, r.rhythm)
              /\ hist' = [Hist("load", r.nDue, r.nAdded, r.reset,
                               storage.rhythmLastReset # Json(clock), FALSE, FALSE,
                               NoCompletion, hist.expired, FALSE)
                            EXCEPT !.burst = confettiBurst(TRUE, prevAllRhythmDoneRef,
                                                           r.rhythm)]
              /\ prevAllRhythmDoneRef' =
                   rhythmEffectRef(TRUE, prevAllRhythmDoneRef, r.rhythm)
  /\ UNCHANGED <<clock, archSeq, undoVisible, undoPayload, undoTimerRef, timers,
                 todayKey, merge, inflight, hydration, runs>>

(* A screen-focus event of the Home screen (also the one at mount). *)
FocusEffect ==
  /\ IF focusThrowsEarly(storage)
     THEN /\ hist' = Hist("focus", 0, 0, FALSE,
                          storage.rhythmLastReset # Json(clock), FALSE, FALSE,
                          NoCompletion, hist.expired, FALSE)
          /\ UNCHANGED <<storage, onDeckTasks, laterTasks, dailyRhythm,
                         completedTodayTotal, prevAllRhythmDoneRef, runs>>
     ELSE LET r == focusReconcile(storage, clock, todayKey)
              late == focusThrowsLate(storage)
              rhythm == IF late THEN dailyRhythm ELSE r.rhythm
          IN  /\ onDeckTasks' = r.deck
              /\ laterTasks' = r.later
              /\ dailyRhythm' = rhythm
              /\ completedTodayTotal' =
                   IF late THEN completedTodayTotal ELSE r.total
              /\ storage' = PersistEffects(r.storage, loaded, r.deck, r.later, rhythm)
              /\ hist' = [Hist("focus", r.nDue, r.nAdded, r.reset,
                               storage.rhythmLastReset # Json(clock), FALSE, FALSE,
                               NoCompletion, hist.expired, FALSE)
                            EXCEPT !.burst = confettiBurst(loaded, prevAllRhythmDoneRef,
                                                           rhythm)]
              /\ prevAllRhythmDoneRef' =
                   rhythmEffectRef(loaded, prevAllRhythmDoneRef, rhythm)
  /\ UNCHANGED <<clock, archSeq, undoVisible, undoPayload, undoTimerRef, timers,
                 loaded, todayKey, merge, inflight, storageLoadError, hydration, runs>>

(* completeOnDeck(taskId) for a task the screen shows; readFails: the       *)
(* getItem of the archive rejects.                                         *)
completeOnDeckStep(taskId, readFails) ==
  /\ loaded
  /\ archSeq < MaxArchive
  /\ \E i \in 1..Len(onDeckTasks) : onDeckTasks[i].id = taskId
  /\ LET task == onDeckTasks[CHOOSE i \in 1..Len(onDeckTasks) :
                               /\ onDeckTasks[i].id = taskId
                               /\ \A j \in 1..(i - 1) : onDeckTasks[j].id # taskId]
         next == Filter(onDeckTasks, LAMBDA t : t.id # taskId)
         archivedId == archSeq + 1
         archived == ArchivedTask(archivedId, task.title, task.category, clock)
         st1 == [storage EXCEPT !.onDeck = Json(next),
                   !.archive = Json(archiveAfterCompletion(storage.archive, archived,
                                                           readFails))]
     IN  /\ onDeckTasks' = next
         /\ storage' = st1
         /\ archSeq' = archivedId
         /\ completedTodayTotal' =
              computeRecap(loadArchiveCountOnly(st1, todayKey), dailyRhythm)
         /\ undoPayload' = UndoPayload(task, archivedId)
         /\ undoVisible' = TRUE
         /\ timers' = showUndoTimers(timers, undoTimerRef, archivedId)
         /\ undoTimerRef' = archivedId
         /\ hist' = Hist("complete", 0, 0, FALSE, FALSE, undoPayload.set, FALSE,
                         [task |-> task, archive |-> storage.archive,
                          total |-> completedTodayTotal],
                         hist.expired, FALSE)
  /\ UNCHANGED <<clock, laterTasks, dailyRhythm, loaded, todayKey, merge, inflight, storageLoadError, hydration, prevAllRhythmDoneRef, runs>>

completeOnDeck(taskId) == completeOnDeckStep(taskId, FALSE)

(* undoLastComplete(): returns at once without a payload; a failing parse  *)
(* of the archive is caught and leaves the archive as it is.               *)
undoLastComplete ==
  /\ loaded
  /\ IF ~undoPayload.set
     THEN /\ hist' = HistOp("undo")
          /\ UNCHANGED <<storage, onDeckTasks, completedTodayTotal, undoVisible,
                         undoPayload, timers>>
     ELSE LET nextOnDeck == normalizeOnDeckIds(<<undoPayload.task>> \o onDeckTasks)
              filtered == undoArchive(ParseOr(storage.archive, <<>>),
                                      undoPayload.archivedId)
              st1 == [storage EXCEPT !.onDeck = Json(nextOnDeck),
                                     !.archive = IF storage.archive.kind = "bad"
                                                 THEN storage.archive
                                                 ELSE Json(filtered)]
          IN  /\ onDeckTasks' = nextOnDeck
              /\ storage' = st1
              /\ completedTodayTotal' =
                   computeRecap(loadArchiveCountOnly(st1, todayKey), dailyRhythm)
              /\ undoVisible' = FALSE
              /\ undoPayload' = NoPayload
              /\ timers' = timers \ {undoTimerRef}
              /\ hist' = Hist("undo", 0, 0, FALSE, FALSE, TRUE,
                              hist.op = "complete",
                              IF hist.op = "complete" THEN hist.c ELSE NoCompletion,
                              hist.expired, FALSE)
  /\ UNCHANGED <<clock, archSeq, laterTasks, dailyRhythm, undoTimerRef, loaded,
                 todayKey, merge, inflight, storageLoadError, hydration, prevAllRhythmDoneRef, runs>>

(* Faulty variant: the timer hides the snackbar but keeps the payload. *)
UndoTimerHidesOnly(handle) ==
  /\ handle \in timers
  /\ timers' = timers \ {handle}
  /\ undoVisible' = FALSE
  /\ hist' = [HistOp("timer") EXCEPT !.expired = hist.expired \cup {handle}]
  /\ UNCHANGED <<storage, clock, archSeq, onDeckTasks, laterTasks, dailyRhythm,
                 completedTodayTotal, undoPayload, undoTimerRef, loaded, todayKey,
                 merge, inflight, storageLoadError, hydration, prevAllRhythmDoneRef, runs>>

(* The callback of the 6000 ms timer of showUndo. *)
UndoTimerFires(handle) ==
  /\ handle \in timers
  /\ timers' = timers \ {handle}
  /\ undoVisible' = FALSE
  /\ undoPayload' = NoPayload
  /\ hist' = [HistOp("timer") EXCEPT !.expired = hist.expired \cup {handle}]
  /\ UNCHANGED <<storage, clock, archSeq, onDeckTasks, laterTasks, dailyRhythm,
                 completedTodayTotal, undoTimerRef, loaded, todayKey, merge, inflight, storageLoadError, hydration, prevAllRhythmDoneRef, runs>>

(* toggleRhythm(taskId) and the [dailyRhythm, loaded] effect. *)
toggleRhythm(taskId) ==
  /\ loaded
  /\ \E i \in 1..Len(dailyRhythm) : dailyRhythm[i].id = taskId
  /\ LET next == [i \in 1..Len(dailyRhythm) |->
                    IF dailyRhythm[i].id = taskId
                    THEN [dailyRhythm[i] EXCEPT !.done = ~dailyRhythm[i].done]
                    ELSE dailyRhythm[i]]
     IN  /\ dailyRhythm' = next
         /\ storage' = [storage EXCEPT !.rhythm = Json(next)]
         /\ completedTodayTotal' =
              computeRecap(loadArchiveCountOnly(storage, todayKey), next)
  /\ hist' = [HistOp("toggle") EXCEPT
                !.burst = confettiBurst(loaded, prevAllRhythmDoneRef, dailyRhythm')]
  /\ prevAllRhythmDoneRef' = rhythmEffectRef(loaded, prevAllRhythmDoneRef, dailyRhythm')
  /\ UNCHANGED <<clock, archSeq, onDeckTasks, laterTasks, undoVisible, undoPayload,
                 undoTimerRef, timers, loaded, todayKey, merge, inflight,
                 storageLoadError, hydration, runs>>

(* Faulty variant: the merge starts from the list in memory. *)
reviewExistingFromState(st, inMemory) == inMemory

(* addReviewToHomebase: existingOnDeck, read from the store in a try whose *)
(* catch yields [].                                                        *)
reviewExistingOnDeck(st, inMemory) == ParseOr(st.onDeck, <<>>)

(* addReviewToHomebase() with the drafts of the inline review. *)
addReviewToHomebase(reviewDrafts) ==
  /\ loaded
  /\ LET existingOnDeck == reviewExistingOnDeck(storage, onDeckTasks)
         nextOnDeck == ReviewNextOnDeck(reviewDrafts, existingOnDeck, todayKey)
     IN  /\ Len(nextOnDeck) <= MaxDeck
         /\ storage' = [storage EXCEPT !.onDeck = Json(nextOnDeck)]
         /\ onDeckTasks' = nextOnDeck
  /\ hist' = [HistOp("review") EXCEPT
                !.stale = (onDeckTasks # ParseOr(storage.onDeck, <<>>))]
  /\ UNCHANGED <<clock, archSeq, laterTasks, dailyRhythm, completedTodayTotal,
                 undoVisible, undoPayload, undoTimerRef, timers, loaded, todayKey,
                 merge, inflight, storageLoadError, hydration, prevAllRhythmDoneRef, runs>>

(***************************************************************************)
(* Environment.                                                            *)
(***************************************************************************)
(* Midnight passes. *)
DayAdvance ==
  /\ clock < MaxDay
  /\ clock' = clock + 1
  /\ hist' = HistOp("day")
  /\ UNCHANGED <<storage, archSeq, homeVars, merge, inflight, storageLoadError, hydration, prevAllRhythmDoneRef, runs>>

(* The process ends and the app is launched again: the store survives, the  *)
(* screen state and the timers do not.                                      *)
Restart ==
  /\ loaded
  /\ onDeckTasks' = DEFAULT_ON_DECK
  /\ laterTasks' = <<>>
  /\ dailyRhythm' = DEFAULT_RHYTHM
  /\ completedTodayTotal' = 0
  /\ undoVisible' = FALSE
  /\ undoPayload' = NoPayload
  /\ undoTimerRef' = NoTimer
  /\ timers' = {}
  /\ loaded' = FALSE
  /\ todayKey' = clock
  /\ storageLoadError' = NoError
  /\ hydration' = "idle"
  /\ prevAllRhythmDoneRef' = FALSE
  /\ runs' = {}
  /\ hist' = HistOp("restart")
  /\ UNCHANGED <<storage, clock, archSeq, merge, inflight>>

(***************************************************************************)
(* The app: a launch over a store left by earlier sessions.  Nothing in    *)
(* these screens adds to the Later list, so its items come from the store. *)
(***************************************************************************)
SeedDeck ==
  << Task(1, TitleA, FALSE, "Calls", NoDue, "upnext"),
     Task(2, TitleB, FALSE, "Home", 1, "today") >>

SeedLater == << DraftTask(1, TitleA2, "Ideas", 1) >>

(* A routine the user edited down to one item, done today. *)
SeedRhythm == << RoutineItem(101, "Make beds", TRUE) >>

SeedArchive == << ArchivedTask(0, TitleB, "Home", 1) >>

SeedStorages ==
  { [onDeck |-> Json(SeedDeck), later |-> l, rhythm |-> Json(SeedRhythm),
     rhythmLastReset |-> Json(1), archive |-> a] :
      l \in {None, Json(SeedLater)},
      a \in {None, Json(SeedArchive)} }

InitApp(storages) ==
  /\ storage \in storages
  /\ clock = 1
  /\ archSeq = 0
  /\ Mounted
  /\ todayKey = 1
  /\ hist = Hist("init", 0, 0, FALSE, FALSE, FALSE, FALSE, NoCompletion, {}, FALSE)
  /\ merge = IdleMerge
  /\ inflight = NoRun

Init == InitApp(SeedStorages)

Next ==
  \/ HydrationEffect
  \/ FocusEffect
  \/ \E taskId \in 1..(MaxDeck + 1) : completeOnDeck(taskId)
  \/ undoLastComplete
  \/ \E handle \in 1..MaxArchive : UndoTimerFires(handle)
  \/ \E taskId \in {DEFAULT_RHYTHM[i].id : i \in 1..Len(DEFAULT_RHYTHM)} :
       toggleRhythm(taskId)
  \/ DayAdvance
  \/ Restart

Spec == Init /\ [][Next]_vars

(***************************************************************************)
(* Auto-surface: launches and focus events over every small Later list and *)
(* a missing, an empty and a filled on-deck list.                          *)
(***************************************************************************)
SurfaceDeck == << Task(1, TitleA, FALSE, "Calls", NoDue, "upnext") >>

SurfaceStorages ==
  { [onDeck |-> d, later |-> l, rhythm |-> None, rhythmLastReset |-> NoneKey,
     archive |-> None] :
      d \in {None, Json(<<>>), Json(SurfaceDeck)},
      l \in {None} \cup {Json(x) : x \in DraftLists(MaxLater)} }

InitSurface == InitApp(SurfaceStorages)

NextSurface ==
  \/ HydrationEffect
  \/ FocusEffect
  \/ DayAdvance
  \/ Restart

SpecSurface == InitSurface /\ [][NextSurface]_vars

(***************************************************************************)
(* Daily Rhythm: launches, focus events and toggles across midnights, over *)
(* a store without a routine and one with yesterday's or today's routine.  *)
(***************************************************************************)
DoneRhythm == [DEFAULT_RHYTHM EXCEPT ![1].done = TRUE, ![3].done = TRUE]

RhythmStorages ==
  { [onDeck |-> Json(<<>>), later |-> None, rhythm |-> r[1],
     rhythmLastReset |-> r[2], archive |-> a] :
      r \in {<<None, NoneKey>>, <<Json(DoneRhythm), NoneKey>>}
            \cup {<<Json(DoneRhythm), Json(d)>> : d \in Days},
      a \in {None, Json(SeedArchive)} }

InitRhythm ==
  /\ InitApp(RhythmStorages)

NextRhythm ==
  \/ HydrationEffect
  \/ FocusEffect
  \/ \E taskId \in {DEFAULT_RHYTHM[i].id : i \in 1..Len(DEFAULT_RHYTHM)} :
       toggleRhythm(taskId)
  \/ DayAdvance
  \/ Restart

SpecRhythm == InitRhythm /\ [][NextRhythm]_vars

(***************************************************************************)
(* Auto-surface step by step: a run suspends at the Promise.all of its two *)
(* setItem calls; each call lands or rejects on its own, in the order      *)
(* issued, and the process may die at any point.                           *)
(***************************************************************************)
(* loadFromStorage / the focus effect up to the awaited writes. *)
SurfaceIssue(run) ==
  /\ inflight.run = "none"
  /\ run = "load" => ~loaded
  /\ LET r == IF run = "load"
              THEN loadFromStorage(storage, clock, todayKey)
              ELSE focusReconcile(storage, clock, todayKey)
         later0 == ParseOr(storage.later, <<>>)
     IN  inflight' = [run |-> run,
                      pending |-> IF r.nDue > 0 THEN <<"onDeck", "later">> ELSE <<>>,
                      failed |-> FALSE,
                      due |-> Filter(later0, LAMBDA t : IsDue(t, clock)),
                      r |-> r]
  /\ hist' = HistOp("issue")
  /\ UNCHANGED <<storage, clock, archSeq, homeVars, merge, storageLoadError,
                 hydration, prevAllRhythmDoneRef, runs>>

(* The oldest unsettled setItem call resolves: its value is in the store. *)
SetItemLands ==
  /\ inflight.pending # <<>>
  /\ storage' = IF Head(inflight.pending) = "onDeck"
                THEN [storage EXCEPT !.onDeck = Json(inflight.r.deck)]
                ELSE [storage EXCEPT !.later = Json(inflight.r.later)]
  /\ inflight' = [inflight EXCEPT !.pending = Tail(@)]
  /\ hist' = HistOp("lands")
  /\ UNCHANGED <<clock, archSeq, homeVars, merge, storageLoadError, hydration, prevAllRhythmDoneRef, runs>>

(* The oldest unsettled setItem call rejects: the store keeps the old value. *)
SetItemFails ==
  /\ inflight.pending # <<>>
  /\ inflight' = [inflight EXCEPT !.pending = Tail(@), !.failed = TRUE]
  /\ hist' = HistOp("fails")
  /\ UNCHANGED <<storage, clock, archSeq, homeVars, merge, storageLoadError,
                 hydration, prevAllRhythmDoneRef, runs>>

(* The run resumes after its writes.  Without a rejection it sets the lists, *)
(* and a cold load goes on to the rhythm reset and setLoaded(true).  With a  *)
(* rejection the focus effect's catch ignores it; the hydration effect's     *)
(* finally still sets loaded, so the persistence effects write the state.    *)
SurfaceSettle ==
  /\ inflight.run # "none"
  /\ inflight.pending = <<>>
  /\ LET r == inflight.r
         st2 == IF r.reset
                THEN [storage EXCEPT !.rhythm = Json(r.rhythm),
                                     !.rhythmLastReset = Json(clock)]
                ELSE storage
         nowLoaded == loaded \/ inflight.run = "load"
     IN  IF inflight.failed
         THEN /\ storage' = PersistEffects(storage, nowLoaded, onDeckTasks,
                                           laterTasks, dailyRhythm)
              /\ UNCHANGED <<onDeckTasks, laterTasks, dailyRhythm,
                             completedTodayTotal>>
              /\ loaded' = nowLoaded
         ELSE /\ onDeckTasks' = r.deck
              /\ laterTasks' = r.later
              /\ dailyRhythm' = r.rhythm
              /\ completedTodayTotal' = r.total
              /\ loaded' = nowLoaded
              /\ storage' = PersistEffects(st2, nowLoaded, r.deck, r.later, r.rhythm)
  /\ storageLoadError' =
       IF inflight.run = "load"
       THEN (IF inflight.failed THEN "storage_load_failed" ELSE NoError)
       ELSE storageLoadError
  /\ inflight' = NoRun
  /\ hist' = [HistOp("settle") EXCEPT
                !.burst = confettiBurst(loaded', prevAllRhythmDoneRef, dailyRhythm')]
  /\ prevAllRhythmDoneRef' =
       rhythmEffectRef(loaded', prevAllRhythmDoneRef, dailyRhythm')
  /\ UNCHANGED <<clock, archSeq, undoVisible, undoPayload, undoTimerRef, timers,
                 todayKey, merge, hydration, runs>>

(* The process dies, mid-run or not, and the app is launched again: calls   *)
(* not yet settled never reach the store.                                   *)
Crash ==
  /\ onDeckTasks' = DEFAULT_ON_DECK
  /\ laterTasks' = <<>>
  /\ dailyRhythm' = DEFAULT_RHYTHM
  /\ completedTodayTotal' = 0
  /\ undoVisible' = FALSE
  /\ undoPayload' = NoPayload
  /\ undoTimerRef' = NoTimer
  /\ timers' = {}
  /\ loaded' = FALSE
  /\ todayKey' = clock
  /\ inflight' = NoRun
  /\ storageLoadError' = NoError
  /\ hydration' = "idle"
  /\ prevAllRhythmDoneRef' = FALSE
  /\ runs' = {}
  /\ hist' = HistOp("crash")
  /\ UNCHANGED <<storage, clock, archSeq, merge>>

NextCrash ==
  \/ \E run \in {"load", "focus"} : SurfaceIssue(run)
  \/ SetItemLands
  \/ SetItemFails
  \/ SurfaceSettle
  \/ Crash

SpecCrash == InitSurface /\ [][NextCrash]_vars

(***************************************************************************)
(* Properties of the auto-surface.                                         *)
(***************************************************************************)
TitleOnDeck(title, deck) ==
  \E j \in 1..Len(deck) : normTitle(deck[j].title) = normTitle(title)

PersistedOnDeck == ParseOr(storage.onDeck, <<>>)

PersistedLater == ParseOr(storage.later, <<>>)

PersistedArchive == ParseOr(storage.archive, <<>>)

(* C1: when an auto-surface run (cold load or focus) with today's DateKey D  *)
(* has finished, no item with dueDateKey <= D is in the persisted Later      *)
(* list, and for every item that was due the persisted on-deck list holds a  *)
(* task with the same normalized title, also when title dedup dropped it.    *)
C1_SurfaceMovesDueItems ==
  [][ hist'.op \in {"load", "focus"} =>
        LET before == PersistedLater
            laterAfter == ParseOr(storage'.later, <<>>)
            deckAfter == ParseOr(storage'.onDeck, <<>>)
        IN  /\ \A i \in 1..Len(laterAfter) : ~IsDue(laterAfter[i], clock)
            /\ \A i \in 1..Len(before) :
                 IsDue(before[i], clock) => TitleOnDeck(before[i].title, deckAfter)
            /\ \A i \in 1..Len(before) :
                 ~IsDue(before[i], clock) =>
                    \E j \in 1..Len(laterAfter) : laterAfter[j] = before[i] ]_vars

(* A run that found two due items and dropped one of them by title dedup. *)
C1_Witness ==
  /\ hist.op \in {"load", "focus"}
  /\ hist.nDue = 2
  /\ hist.nAdded = 1
  /\ PersistedLater = <<>>
  /\ Len(PersistedOnDeck) = 2

(* C2: at every point of an auto-surface run, so also after a crash or a     *)
(* failed write at that point, every Later item that was due when the run    *)
(* started is in the persisted Later list or has a task with its normalized  *)
(* title in the persisted on-deck list.                                      *)
C2_DueItemNeverLost ==
  inflight.run # "none" =>
    \A i \in 1..Len(inflight.due) :
      \/ TitleOnDeck(inflight.due[i].title, PersistedOnDeck)
      \/ \E j \in 1..Len(PersistedLater) : PersistedLater[j] = inflight.due[i]

(***************************************************************************)
(* Properties of completion and undo.                                      *)
(***************************************************************************)
ArchiveIds == {PersistedArchive[i].id : i \in 1..Len(PersistedArchive)}

SameTask(t, u) ==
  /\ t.title = u.title
  /\ t.category = u.category
  /\ t.dueDateKey = u.dueDateKey

(* C3: after completing an on-deck task T and undoing it at once, the        *)
(* on-deck list, in memory and in the store, holds a task with T's title,    *)
(* category and dueDateKey, the persisted archive is the archive of before   *)
(* the completion, and the completed-today count is the count of before.     *)
C3_CompleteUndoRoundTrip ==
  (hist.op = "undo" /\ hist.imm) =>
    /\ Len(onDeckTasks) >= 1
    /\ SameTask(onDeckTasks[1], hist.c.task)
    /\ PersistedOnDeck = onDeckTasks
    /\ PersistedArchive = ParseOr(hist.c.archive, <<>>)
    /\ completedTodayTotal = hist.c.total

(* The undone task had a due date and another id, and the archive was not  *)
(* empty.                                                                  *)
C3_Witness ==
  /\ hist.op = "undo"
  /\ hist.imm
  /\ hist.c.task.dueDateKey # NoDue
  /\ hist.c.task.id # onDeckTasks[1].id
  /\ PersistedArchive # <<>>
  /\ completedTodayTotal > 0

(* C7: once the undo timer of a completion has fired, that completion's    *)
(* archive entry stays in the persisted archive, the undo affordance is    *)
(* not shown for it, and invoking undo while the latest completion's timer *)
(* has fired changes neither the on-deck list nor the store.               *)
C7_UndoAfterExpiryIsNoOp ==
  [][ /\ \A a \in hist'.expired :
           /\ a \in {x.id : x \in {ParseOr(storage'.archive, <<>>)[i] :
                                     i \in 1..Len(ParseOr(storage'.archive, <<>>))}}
           /\ ~(undoVisible' /\ undoPayload'.set /\ undoPayload'.archivedId = a)
      /\ (hist'.op = "undo" /\ archSeq \in hist.expired) =>
           /\ storage' = storage
           /\ onDeckTasks' = onDeckTasks ]_vars

(* Undo was invoked after the timer of the latest completion had fired. *)
C7_Witness ==
  /\ hist.op = "undo"
  /\ archSeq \in hist.expired
  /\ archSeq \in ArchiveIds
  /\ ~undoVisible

(* C8: at most one undo timer is pending and it belongs to the one pending *)
(* payload; a completion made while an undo is pending replaces the        *)
(* payload, cancels the earlier timer, and leaves the earlier completion   *)
(* archived and not restored.                                              *)
C8_UndoSlotIsSingle ==
  [][ /\ Cardinality(timers') <= 1
      /\ \A t \in timers' : undoPayload'.set /\ undoPayload'.archivedId = t
      /\ (hist'.op = "complete" /\ undoPayload.set) =>
           /\ undoPayload'.set
           /\ undoPayload'.archivedId # undoPayload.archivedId
           /\ undoPayload.archivedId \notin timers'
           /\ undoPayload.archivedId \in
                {ParseOr(storage'.archive, <<>>)[i].id :
                   i \in 1..Len(ParseOr(storage'.archive, <<>>))}
           /\ Len(onDeckTasks') = Len(onDeckTasks) - 1 ]_vars

(* A second completion made while the first one's undo was pending. *)
C8_Witness ==
  /\ hist.op = "complete"
  /\ hist.pending
  /\ undoPayload.archivedId = 2
  /\ timers = {2}
  /\ {1, 2} \subseteq ArchiveIds

(***************************************************************************)
(* Properties of the Daily Rhythm reset.                                   *)
(***************************************************************************)
AllUndone(rhythm) == \A i \in 1..Len(rhythm) : ~rhythm[i].done

(* C4: a cold load that finds the persisted lastResetDate equal to today   *)
(* changes no done flag, in memory or in the store, whatever was toggled   *)
(* since the reset, and leaves the persisted lastResetDate as it is.       *)
C4_ResetIdempotent ==
  [][ (hist'.op = "load" /\ storage.rhythmLastReset = Json(clock)) =>
        /\ dailyRhythm' = ParseOr(storage.rhythm, DEFAULT_RHYTHM)
        /\ ParseOr(storage'.rhythm, DEFAULT_RHYTHM) =
             ParseOr(storage.rhythm, DEFAULT_RHYTHM)
        /\ storage'.rhythmLastReset = storage.rhythmLastReset ]_vars

(* A second load of the day that kept a flag toggled after the first. *)
C4_Witness ==
  /\ hist.op = "load"
  /\ ~hist.mustReset
  /\ ~hist.reset
  /\ Len(dailyRhythm) = 3
  /\ dailyRhythm[2].done
  /\ ~dailyRhythm[1].done

C6_FocusResets ==
  (hist.op = "focus" /\ hist.mustReset /\ loaded) =>
    /\ AllUndone(dailyRhythm)
    /\ storage.rhythmLastReset = Json(clock)

(***************************************************************************)
(* Properties of the merge.                                                *)
(***************************************************************************)
MergeDone == merge.kind \in {"review", "submit", "surface", "move"}

(* The new items handed to the merge of merge.kind. *)
MergeNewItems ==
  CASE merge.kind = "surface" ->
         SelectSeq(merge.new, LAMBDA t : t.dueDateKey # NoDue /\ t.dueDateKey <= merge.tk)
    [] merge.kind = "move" -> << merge.new[1] >>
    [] OTHER -> merge.new

SameButId(t, u) ==
  /\ t.title = u.title
  /\ t.done = u.done
  /\ t.category = u.category
  /\ t.dueDateKey = u.dueDateKey
  /\ t.plan = u.plan

(* C9: a merge drops every new item whose normalized title is the normalized *)
(* title of an existing on-deck task, puts the surviving new items in front  *)
(* in their order, and keeps every existing task, in its original relative   *)
(* order, behind them.                                                       *)
C9_MergeDedupPrepend ==
  MergeDone =>
    LET survivors == SelectSeq(MergeNewItems,
                               LAMBDA d : ~TitleOnDeck(d.title, merge.existing))
        k == Len(merge.out) - Len(merge.existing)
    IN  /\ k = Len(survivors)
        /\ \A i \in 1..k : merge.out[i].title = survivors[i].title
        /\ \A i \in 1..k : ~TitleOnDeck(merge.out[i].title, merge.existing)
        /\ \A i \in 1..Len(merge.existing) :
             SameButId(merge.out[k + i], merge.existing[i])

C9_Witness ==
  /\ merge.kind = "review"
  /\ Len(merge.existing) = 2
  /\ Len(merge.new) = 2
  /\ TitleOnDeck(merge.new[1].title, merge.existing)
  /\ merge.new[1].title \notin {merge.existing[j].title : j \in 1..Len(merge.existing)}
  /\ ~TitleOnDeck(merge.new[2].title, merge.existing)
  /\ Len(merge.out) = 3

(* C10: merging two new items with the same normalized title into an empty   *)
(* on-deck list in one merge call yields exactly one task with that title.   *)
C10_MergeDedupWithinNew ==
  ( /\ merge.kind \in {"review", "submit", "surface"}
    /\ merge.existing = <<>>
    /\ Len(MergeNewItems) = 2
    /\ normTitle(MergeNewItems[1].title) = normTitle(MergeNewItems[2].title) )
  => Cardinality({i \in 1..Len(merge.out) :
                    normTitle(merge.out[i].title) = normTitle(MergeNewItems[1].title)}) = 1

(***************************************************************************)
(* Properties of the on-deck ids.                                          *)
(***************************************************************************)
IdsInOrder(tasks) == \A i \in 1..Len(tasks) : tasks[i].id = i

(* C11: after every structural mutation of the on-deck list (surfacing by  *)
(* a load or focus run, completion, undo) the ids of the on-deck tasks, in *)
(* memory and in the store, are 1..N in array order.                       *)
C11_IdsArePositions ==
  hist.op \in {"load", "focus", "complete", "undo"} =>
    /\ IdsInOrder(onDeckTasks)
    /\ IdsInOrder(PersistedOnDeck)

(***************************************************************************)
(* normalizeOnDeckIds on task arrays with any ids: applied once, then      *)
(* again to its own result.                                                *)
(***************************************************************************)
(* Task arrays as the inserting handlers build them: ids 999999, stale or  *)
(* repeated ids.                                                           *)
AnyIdLists(n) ==
  LET shapes == SeqsUpTo({1, 2, 999999} \X Titles \X BOOLEAN, n)
  IN  { [i \in 1..Len(sh) |->
           Task(sh[i][1], sh[i][2], sh[i][3], "Calls", NoDue, "upnext")]
        : sh \in shapes }

InitReindex ==
  /\ storage = EmptyStorage
  /\ clock = 1
  /\ archSeq = 0
  /\ Mounted
  /\ todayKey = 1
  /\ hist = Hist("init", 0, 0, FALSE, FALSE, FALSE, FALSE, NoCompletion, {}, FALSE)
  /\ inflight = NoRun
  /\ \E tasks \in AnyIdLists(MaxDrafts) :
       merge = [kind |-> "idle", new |-> tasks, existing |-> tasks, tk |-> 1,
                plan |-> "upnext", out |-> <<>>]

(* merge.new: the array given first; merge.existing: the argument of the   *)
(* latest call; merge.out: its result.                                     *)
ReindexOnce ==
  /\ merge.kind = "idle"
  /\ merge' = [merge EXCEPT !.kind = "reindex",
                            !.out = normalizeOnDeckIds(merge.existing)]
  /\ UNCHANGED appVars

ReindexAgain ==
  /\ merge.kind = "reindex"
  /\ merge' = [merge EXCEPT !.kind = "reindex2", !.existing = merge.out,
                            !.out = normalizeOnDeckIds(merge.out)]
  /\ UNCHANGED appVars

NextReindex == ReindexOnce \/ ReindexAgain

SpecReindex == InitReindex /\ [][NextReindex]_vars

(* C12: normalizeOnDeckIds applied to its own result returns that result,  *)
(* and an application changes no field other than id and keeps the length  *)
(* and the order.                                                          *)
C12_ReindexIdempotent ==
  /\ merge.kind = "reindex2" => merge.out = merge.existing
  /\ merge.kind \in {"reindex", "reindex2"} =>
       /\ Len(merge.out) = Len(merge.existing)
       /\ \A i \in 1..Len(merge.out) :
            /\ SameButId(merge.out[i], merge.existing[i])
            /\ merge.out[i].id = i

(* Applied twice to an array whose ids were 999999 and 1. *)
C12_Witness ==
  /\ merge.kind = "reindex2"
  /\ Len(merge.new) = 2
  /\ merge.new[1].id = 999999
  /\ merge.new[2].id = 1
  /\ merge.out[1].id = 1
  /\ merge.out[2].id = 2

(***************************************************************************)
(* Store faults: stored values that JSON.parse rejects, and a getItem of   *)
(* the archive that rejects during a completion.                           *)
(***************************************************************************)
FaultStorages ==
  { [onDeck |-> d, later |-> l, rhythm |-> r, rhythmLastReset |-> Json(1),
     archive |-> a] :
      d \in {Json(SeedDeck), Bad},
      l \in {None, Bad},
      r \in {Json(DoneRhythm), Bad},
      a \in {Json(SeedArchive), Bad} }

InitFault == InitApp(FaultStorages)

NextFault ==
  \/ HydrationEffect
  \/ FocusEffect
  \/ \E taskId \in 1..(MaxDeck + 1), readFails \in BOOLEAN :
       completeOnDeckStep(taskId, readFails)
  \/ undoLastComplete
  \/ DayAdvance
  \/ Restart

SpecFault == InitFault /\ [][NextFault]_vars

(***************************************************************************)
(* Properties of the archive.                                              *)
(***************************************************************************)
IsSubSeq(s, t) ==
  \E f \in [1..Len(s) -> 1..Len(t)] :
    /\ \A i \in 1..Len(s) : t[f[i]] = s[i]
    /\ \A i, j \in 1..Len(s) : i < j => f[i] < f[j]

(* C13: a step keeps every entry of the persisted archive, unchanged and   *)
(* in order, except the entry that an undo removes; a completion puts one  *)
(* entry in front of all earlier entries, also when its read of the        *)
(* archive fails.                                                          *)
C13_ArchiveAppendOnly ==
  [][ LET before == PersistedArchive
          after == ParseOr(storage'.archive, <<>>)
          kept == IF hist'.op = "undo" /\ undoPayload.set
                  THEN SelectSeq(before, LAMBDA x : x.id # undoPayload.archivedId)
                  ELSE before
      IN  /\ IsSubSeq(kept, after)
          /\ hist'.op = "complete" =>
               /\ Len(after) = Len(before) + 1
               /\ Tail(after) = before ]_vars

(***************************************************************************)
(* Properties of the completed-today count.                                *)
(***************************************************************************)
(* C14: when a cold load, a focus run, a completion, an undo or a routine  *)
(* toggle has finished, the count on the home screen is the number of      *)
(* archive entries whose completedDateKey is today plus the number of      *)
(* routine items that are done.                                            *)
C14_CountIsDerived ==
  hist.op \in {"load", "focus", "complete", "undo", "toggle"} =>
    completedTodayTotal =
      Cardinality({i \in 1..Len(PersistedArchive) :
                     PersistedArchive[i].completedDateKey = clock})
      + Cardinality({i \in 1..Len(dailyRhythm) : dailyRhythm[i].done})

(***************************************************************************)
(* Properties of failing reads.                                            *)
(***************************************************************************)
(* C15: a cold load over stored values that JSON.parse rejects records no  *)
(* load error and still runs the routine reset: when the persisted         *)
(* lastResetDate differed from today, the routine is reset and stamped.    *)
C15_MalformedValuesFallBack ==
  hist.op = "load" =>
    /\ storageLoadError = NoError
    /\ hist.mustReset =>
         /\ AllUndone(dailyRhythm)
         /\ storage.rhythmLastReset = Json(clock)

(***************************************************************************)
(* Hydration step by step: the effect races loadFromStorage against an     *)
(* 8000 ms timer.  The load may resolve at any time or never; a load that  *)
(* lost the race is not cancelled and may still resolve.                   *)
(***************************************************************************)
(* The hydration effect starts: setStorageLoadError(null), the reads of    *)
(* loadFromStorage, and the timer.                                         *)
HydrateBegin ==
  /\ ~loaded
  /\ hydration = "idle"
  /\ hydration' = "racing"
  /\ storageLoadError' = NoError
  /\ inflight' = [run |-> "load", pending |-> <<>>, failed |-> FALSE,
                  due |-> Filter(ParseOr(storage.later, <<>>),
                                 LAMBDA t : IsDue(t, clock)),
                  r |-> loadFromStorage(storage, clock, todayKey)]
  /\ hist' = HistOp("begin")
  /\ UNCHANGED <<storage, clock, archSeq, homeVars, merge, prevAllRhythmDoneRef, runs>>

(* loadFromStorage runs to its end: its writes, its setState calls; if the *)
(* race is still open the finally sets loaded.                             *)
LoadResolves ==
  /\ hydration \in {"racing", "timedout"}
  /\ LET r == inflight.r
         st1 == IF r.nDue > 0
                THEN [storage EXCEPT !.onDeck = Json(r.deck), !.later = Json(r.later)]
                ELSE storage
         st2 == IF r.reset
                THEN [st1 EXCEPT !.rhythm = Json(r.rhythm),
                                 !.rhythmLastReset = r.storage.rhythmLastReset]
                ELSE st1
     IN  /\ onDeckTasks' = r.deck
         /\ laterTasks' = r.later
         /\ dailyRhythm' = r.rhythm
         /\ completedTodayTotal' = r.total
         /\ storage' = PersistEffects(st2, TRUE, r.deck, r.later, r.rhythm)
  /\ loaded' = TRUE
  /\ hydration' = "idle"
  /\ inflight' = NoRun
  /\ hist' = [HistOp("resolve") EXCEPT
                !.burst = confettiBurst(TRUE, prevAllRhythmDoneRef, dailyRhythm')]
  /\ prevAllRhythmDoneRef' = rhythmEffectRef(TRUE, prevAllRhythmDoneRef, dailyRhythm')
  /\ UNCHANGED <<clock, archSeq, undoVisible, undoPayload, undoTimerRef, timers,
                 todayKey, merge, storageLoadError, runs>>

(* Faulty variant: no timer races the load. *)
LoadNeverTimesOut ==
  /\ FALSE
  /\ UNCHANGED vars

(* The 8000 ms timer fires first: the race rejects, the catch records the  *)
(* message, the finally sets loaded, and the persistence effects run on    *)
(* the state as it is.                                                     *)
LoadTimeout ==
  /\ hydration = "racing"
  /\ hydration' = "timedout"
  /\ storageLoadError' = "storage_load_timeout"
  /\ loaded' = TRUE
  /\ storage' = PersistEffects(storage, TRUE, onDeckTasks, laterTasks, dailyRhythm)
  /\ hist' = [HistOp("timeout") EXCEPT
                !.burst = confettiBurst(TRUE, prevAllRhythmDoneRef, dailyRhythm)]
  /\ prevAllRhythmDoneRef' = rhythmEffectRef(TRUE, prevAllRhythmDoneRef, dailyRhythm)
  /\ UNCHANGED <<clock, archSeq, onDeckTasks, laterTasks, dailyRhythm,
                 completedTodayTotal, undoVisible, undoPayload, undoTimerRef,
                 timers, todayKey, merge, inflight, runs>>

(* The user leaves the loaded app and launches it again. *)
Relaunch ==
  /\ loaded
  /\ Crash

NextHydrate ==
  \/ HydrateBegin
  \/ LoadResolves
  \/ LoadTimeout
  \/ Relaunch

(* The effect runs after mount and a started timer fires; nothing makes    *)
(* the store answer.                                                       *)
SpecHydrate ==
  /\ InitSurface
  /\ [][NextHydrate]_vars
  /\ WF_vars(HydrateBegin)
  /\ WF_vars(LoadTimeout)

moveRemainingKeep(later, id) == later

(* setLater((prev) => prev.filter((t) => t.id !== id)) *)
moveRemaining(later, id) == SelectSeq(later, LAMBDA t : t.id # id)

moveToOnDeck(idx, plan) ==
  /\ loaded
  /\ idx \in 1..Len(ParseOr(storage.later, <<>>))
  /\ LET later == ParseOr(storage.later, <<>>)
         item == later[idx]
         existing == ParseOr(storage.onDeck, <<>>)
         nextOnDeck == MoveNextOnDeck(item, plan, existing)
     IN  /\ Len(nextOnDeck) <= MaxDeck
         /\ storage' = [storage EXCEPT
                          !.onDeck = Json(nextOnDeck),
                          !.later = Json(moveRemaining(later, item.id))]
  /\ hist' = HistOp("move")
  /\ UNCHANGED <<clock, archSeq, homeVars, merge, inflight, storageLoadError,
                 hydration, prevAllRhythmDoneRef, runs>>

ReviewStorages ==
  { [onDeck |-> d, later |-> Json(l), rhythm |-> None, rhythmLastReset |-> NoneKey,
     archive |-> None] :
      d \in {Json(<<>>), Json(SurfaceDeck)},
      l \in DraftLists(1) }

(* The drafts of the inline review: none, one, or the same title twice. *)
ReviewInputs ==
  DraftLists(1) \cup
    { << DraftTask(1, TitleA, "Ideas", NoDue), DraftTask(2, TitleA2, "Ideas", d) >> :
        d \in DueKeys }

InitReview == InitApp(ReviewStorages)

NextReview ==
  \/ HydrationEffect
  \/ FocusEffect
  \/ \E idx \in 1..MaxLater, plan \in {"today", "upnext"} : moveToOnDeck(idx, plan)
  \/ \E reviewDrafts \in ReviewInputs : addReviewToHomebase(reviewDrafts)

SpecReview == InitReview /\ [][NextReview]_vars

PrimaryTable ==
  [c \in Range(UpperChars) \cup Range(LowerChars) \cup OtherChars |->
     IF c \in OtherChars THEN 0
     ELSE CHOOSE i \in 1..Len(LowerChars) : LowerChars[i] = LowerChar(c)]

CaseTable ==
  [c \in Range(UpperChars) \cup Range(LowerChars) \cup OtherChars |->
     IF c \in Range(UpperChars) THEN 1 ELSE 0]

PrimaryKeys(s) == [i \in 1..Len(s) |-> PrimaryTable[s[i]]]

CaseKeys(s) == [i \in 1..Len(s) |-> CaseTable[s[i]]]

RECURSIVE LexCompare(_, _)
LexCompare(s, t) ==
  IF s = <<>> THEN (IF t = <<>> THEN 0 ELSE -1)
  ELSE IF t = <<>> THEN 1
  ELSE IF Head(s) # Head(t) THEN (IF Head(s) < Head(t) THEN -1 ELSE 1)
  ELSE LexCompare(Tail(s), Tail(t))

localeCompare(a, b) ==
  LET p == LexCompare(PrimaryKeys(a), PrimaryKeys(b))
  IN  IF p # 0 THEN p ELSE LexCompare(CaseKeys(a), CaseKeys(b))

(* A due date after the last day of the model, and "9999-99-99", the key   *)
(* the comparator gives a task without a due date: after every DateKey.    *)
FutureKey == MaxDay + 1
SortLastKey == MaxDay + 2

(* Faulty variant: the missing due date is compared as it is stored. *)
dueSortKeyRaw(t) == t.dueDateKey

(* a.dueDateKey ?? "9999-99-99" *)
dueSortKey(t) == IF t.dueDateKey = NoDue THEN SortLastKey ELSE t.dueDateKey

(* The comparator given to sort: negative when a goes before b. *)
compareOpen(a, b, tk) ==
  LET ao == IF a.dueDateKey # NoDue /\ a.dueDateKey < tk THEN 0 ELSE 1
      bo == IF b.dueDateKey # NoDue /\ b.dueDateKey < tk THEN 0 ELSE 1
      at == IF a.dueDateKey = tk THEN 0 ELSE 1
      bt == IF b.dueDateKey = tk THEN 0 ELSE 1
      aKey == dueSortKey(a)
      bKey == dueSortKey(b)
  IN  IF ao # bo THEN ao - bo
      ELSE IF at # bt THEN at - bt
      ELSE IF aKey # bKey THEN (IF aKey < bKey THEN -1 ELSE 1)
      ELSE localeCompare(a.title, b.title)

(* Array.prototype.sort with that comparator: a stable sort, computed by   *)
(* inserting each element behind the elements that do not go after it.     *)
RECURSIVE sortOpen(_, _)
sortOpen(s, tk) ==
  IF s = <<>> THEN <<>>
  ELSE LET rest == sortOpen(SubSeq(s, 1, Len(s) - 1), tk)
           x == s[Len(s)]
           k == Cardinality({i \in 1..Len(rest) : compareOpen(rest[i], x, tk) <= 0})
       IN  SubSeq(rest, 1, k) \o <<x>> \o SubSeq(rest, k + 1, Len(rest))

openTasksSorted(tasks, tk) ==
  sortOpen(SelectSeq(tasks, LAMBDA t : ~t.done), tk)

(* The task lists sorted: up to three tasks with any title and any due     *)
(* date, some of them done, and the four-task lists that hold one overdue, *)
(* one due today, one future and one undated task in any order.            *)
SortDueKeys == DueKeys \cup {FutureKey}

SortShapes ==
  SeqsUpTo((Titles \X SortDueKeys \X {FALSE}) \cup {<<TitleA, 1, TRUE>>}, 3)
    \cup { sh \in [1..4 -> {TitleA} \X SortDueKeys \X {FALSE}] :
             \A i, j \in 1..4 : i # j => sh[i][2] # sh[j][2] }

SortLists ==
  { [i \in 1..Len(sh) |-> Task(i, sh[i][1], sh[i][3], "Calls", sh[i][2], "upnext")]
    : sh \in SortShapes }

InitSort ==
  /\ storage = EmptyStorage
  /\ clock = 1
  /\ archSeq = 0
  /\ Mounted
  /\ todayKey = 1
  /\ hist = Hist("init", 0, 0, FALSE, FALSE, FALSE, FALSE, NoCompletion, {}, FALSE)
  /\ inflight = NoRun
  /\ \E tasks \in SortLists, tk \in Days :
       merge = [kind |-> "idle", new |-> <<>>, existing |-> tasks, tk |-> tk,
                plan |-> "upnext", out |-> <<>>]

(* merge.existing: the tasks prop; merge.tk: todayKeyLocal() at the time   *)
(* the memo is computed; merge.out: openTasksSorted.                       *)
SortOpenTasks ==
  /\ merge.kind = "idle"
  /\ merge' = [merge EXCEPT !.kind = "sorted",
                            !.out = openTasksSorted(merge.existing, merge.tk)]
  /\ UNCHANGED appVars

NextSort == SortOpenTasks

SpecSort == InitSort /\ [][NextSort]_vars

(* The place of a task in the display: overdue, due today, due later,      *)
(* undated.                                                                *)
DisplayClass(t, tk) ==
  IF t.dueDateKey # NoDue /\ t.dueDateKey < tk THEN 0
  ELSE IF t.dueDateKey = tk THEN 1
  ELSE IF t.dueDateKey # NoDue THEN 2
  ELSE 3

(* a is not displayed after b. *)
DisplayedBefore(a, b, tk) ==
  \/ DisplayClass(a, tk) < DisplayClass(b, tk)
  \/ /\ DisplayClass(a, tk) = DisplayClass(b, tk)
     /\ \/ a.dueDateKey < b.dueDateKey
        \/ /\ a.dueDateKey = b.dueDateKey
           /\ LexCompare(PrimaryKeys(a.title), PrimaryKeys(b.title)) <= 0

(* C18: the displayed list holds exactly the open tasks, and of any two of *)
(* them the earlier one is overdue before due today before due later       *)
(* before undated, then has the smaller due date, then the title that is   *)
(* not later in the alphabet.                                              *)
C18_DisplayOrder ==
  merge.kind = "sorted" =>
    LET open == SelectSeq(merge.existing, LAMBDA t : ~t.done)
    IN  /\ Len(merge.out) = Len(open)
        /\ Range(merge.out) = Range(open)
        /\ \A i, j \in 1..Len(merge.out) :
             i < j => DisplayedBefore(merge.out[i], merge.out[j], merge.tk)

(* An undated, a future, a today and an overdue task given in that order   *)
(* are displayed in the opposite one.                                      *)
C18_Witness ==
  /\ merge.kind = "sorted"
  /\ Len(merge.out) = 4
  /\ merge.existing[1].dueDateKey = NoDue
  /\ merge.existing[4].dueDateKey < merge.tk
  /\ \A i \in 1..4 : DisplayClass(merge.out[i], merge.tk) = i - 1

(***************************************************************************)
(* ArchiveScreen: the archive grouped by day.                              *)
(***************************************************************************)
(* The Map built by the loop, as its entries in insertion order:           *)
(* map.set(k, [...(map.get(k) ?? []), it]).                                *)
mapSet(map, k, it) ==
  IF \E i \in 1..Len(map) : map[i].dateKey = k
  THEN [i \in 1..Len(map) |->
          IF map[i].dateKey = k
          THEN [map[i] EXCEPT !.rows = Append(map[i].rows, it)]
          ELSE map[i]]
  ELSE Append(map, [dateKey |-> k, rows |-> <<it>>])

RECURSIVE groupByKey(_, _)
groupByKey(items, map) ==
  IF items = <<>> THEN map
  ELSE groupByKey(Tail(items), mapSet(map, Head(items).completedDateKey, Head(items)))

(* Faulty variant: oldest day first. *)
newestFirstReversed(a, b) == IF a < b THEN -1 ELSE 1

(* The comparator of the key sort: (a, b) => (a < b ? 1 : -1). *)
newestFirst(a, b) == IF a < b THEN 1 ELSE -1

(* Array.from(map.keys()).sort(...): stable, by insertion. *)
RECURSIVE sortKeys(_)
sortKeys(keys) ==
  IF keys = <<>> THEN <<>>
  ELSE LET rest == sortKeys(SubSeq(keys, 1, Len(keys) - 1))
           x == keys[Len(keys)]
           k == Cardinality({i \in 1..Len(rest) : newestFirst(rest[i], x) <= 0})
       IN  SubSeq(rest, 1, k) \o <<x>> \o SubSeq(rest, k + 1, Len(rest))

(* keys.map((k) => ({ dateKey: k, rows: map.get(k) ?? [] })) *)
grouped(items) ==
  LET map == groupByKey(items, <<>>)
      keys == sortKeys([i \in 1..Len(map) |-> map[i].dateKey])
  IN  [i \in 1..Len(keys) |->
         IF \E j \in 1..Len(map) : map[j].dateKey = keys[i]
         THEN map[CHOOSE j \in 1..Len(map) : map[j].dateKey = keys[i]]
         ELSE [dateKey |-> keys[i], rows |-> <<>>]]

(* Stored archives: up to four entries of any day in any order, with       *)
(* distinct ids.                                                           *)
ArchiveLists ==
  { [i \in 1..Len(sh) |-> ArchivedTask(i, sh[i][1], "Home", sh[i][2])]
    : sh \in SeqsUpTo(Titles \X Days, 4) }

InitGroup ==
  /\ storage = EmptyStorage
  /\ clock = 1
  /\ archSeq = 0
  /\ Mounted
  /\ todayKey = 1
  /\ hist = Hist("init", 0, 0, FALSE, FALSE, FALSE, FALSE, NoCompletion, {}, FALSE)
  /\ inflight = NoRun
  /\ \E items \in ArchiveLists :
       merge = [kind |-> "idle", new |-> <<>>, existing |-> items, tk |-> 1,
                plan |-> "upnext", out |-> <<>>]

(* merge.existing: items, the archive as loaded; merge.out: grouped. *)
GroupArchive ==
  /\ merge.kind = "idle"
  /\ merge' = [merge EXCEPT !.kind = "grouped", !.out = grouped(merge.existing)]
  /\ UNCHANGED appVars

NextGroup == GroupArchive

SpecGroup == InitGroup /\ [][NextGroup]_vars

(* C19: every archive entry is in exactly one place of exactly one group,  *)
(* the group of its completedDateKey; the groups are in descending DateKey *)
(* order; the rows of a group are the entries of that day in the order of  *)
(* the stored list.                                                        *)
C19_ArchiveGrouping ==
  merge.kind = "grouped" =>
    LET items == merge.existing
        g == merge.out
        places(it) == { <<gi, ri>> \in (1..Len(g)) \X (1..Len(items)) :
                          ri <= Len(g[gi].rows) /\ g[gi].rows[ri] = it }
    IN  /\ \A i \in 1..Len(items) :
             /\ Cardinality(places(items[i])) = 1
             /\ \A p \in places(items[i]) :
                  g[p[1]].dateKey = items[i].completedDateKey
        /\ \A gi, gj \in 1..Len(g) : gi < gj => g[gi].dateKey > g[gj].dateKey
        /\ \A gi \in 1..Len(g) :
             /\ g[gi].rows # <<>>
             /\ g[gi].rows =
                  SelectSeq(items, LAMBDA it : it.completedDateKey = g[gi].dateKey)

(* A stored list that starts with an entry of the older day and goes on    *)
(* with two of the newer day: the newer day's group comes first, with its  *)
(* two rows in stored order.                                               *)
C19_Witness ==
  /\ merge.kind = "grouped"
  /\ Len(merge.existing) = 3
  /\ merge.existing[1].completedDateKey = 1
  /\ merge.existing[2].completedDateKey = 2
  /\ merge.existing[3].completedDateKey = 2
  /\ Len(merge.out) = 2
  /\ merge.out[1].rows = << merge.existing[2], merge.existing[3] >>
  /\ merge.out[2].rows = << merge.existing[1] >>

(***************************************************************************)
(* The plan given to surfaced and review-confirmed items, on a home screen *)
(* that stays mounted while days pass.                                     *)
(***************************************************************************)
InitPlan == InitApp(ReviewStorages)

NextPlan ==
  \/ HydrationEffect
  \/ FocusEffect
  \/ DayAdvance
  \/ \E reviewDrafts \in ReviewInputs : addReviewToHomebase(reviewDrafts)

SpecPlan == InitPlan /\ [][NextPlan]_vars

(* C20: every task put on deck by a load, a focus run or a review confirm  *)
(* has plan "today" exactly when its dueDateKey is the DateKey of the day  *)
(* on which it is put there, and "upnext" otherwise.                       *)
C20_PlanFollowsToday ==
  [][ LET k == CASE hist'.op = "review" ->
                      Len(onDeckTasks') - Len(ParseOr(storage.onDeck, <<>>))
                 [] hist'.op \in {"load", "focus"} -> hist'.nAdded
                 [] OTHER -> 0
      IN  \A i \in 1..k :
            /\ onDeckTasks'[i].plan \in {"today", "upnext"}
            /\ onDeckTasks'[i].plan = "today" <=> onDeckTasks'[i].dueDateKey = clock
    ]_vars

(***************************************************************************)
(* The three buckets: every handler that moves a task between the Later    *)
(* list, the on-deck list and the archive, on one store.                   *)
(***************************************************************************)
BucketLater ==
  << DraftTask(1, TitleB, "Someday", 2), DraftTask(2, TitleA2, "Ideas", NoDue) >>

BucketStorages ==
  { [onDeck |-> Json(SurfaceDeck), later |-> Json(l), rhythm |-> None,
     rhythmLastReset |-> NoneKey, archive |-> a] :
      l \in {BucketLater, SubSeq(BucketLater, 1, 1)},
      a \in {None, Json(SeedArchive)} }

InitBuckets == InitApp(BucketStorages)

NextBuckets ==
  \/ HydrationEffect
  \/ FocusEffect
  \/ \E idx \in 1..MaxLater, plan \in {"today", "upnext"} : moveToOnDeck(idx, plan)
  \/ \E taskId \in 1..(MaxDeck + 1) : completeOnDeck(taskId)
  \/ undoLastComplete
  \/ \E handle \in 1..MaxArchive : UndoTimerFires(handle)
  \/ DayAdvance

SpecBuckets == InitBuckets /\ [][NextBuckets]_vars

(* t is an item of the list s, compared by title, category and due date. *)
HeldBy(t, s) == \E i \in 1..Len(s) : SameTask(t, s[i])

(* C21: in every step the Later list only loses items and the archive only *)
(* loses the entry an undo takes back; a task that a surfacing run or a    *)
(* manual move put on deck is no longer in the Later list, a completed     *)
(* task is in the archive and no longer on deck, and an undone task is on  *)
(* deck and its entry no longer in the archive.                            *)
C21_BucketsOneWay ==
  [][ LET later == PersistedLater
          later2 == ParseOr(storage'.later, <<>>)
          deck == PersistedOnDeck
          deck2 == ParseOr(storage'.onDeck, <<>>)
          arch == PersistedArchive
          arch2 == ParseOr(storage'.archive, <<>>)
          k == CASE hist'.op \in {"load", "focus"} -> hist'.nAdded
                 [] hist'.op = "move" -> Len(deck2) - Len(deck)
                 [] OTHER -> 0
      IN  /\ IsSubSeq(later2, later)
          /\ hist'.op # "undo" => IsSubSeq(arch, arch2)
          /\ \A i \in 1..k : HeldBy(deck2[i], later) /\ ~HeldBy(deck2[i], later2)
          /\ hist'.op = "move" => Len(later2) = Len(later) - 1
          /\ hist'.op = "complete" =>
               /\ \A i \in 1..Len(deck2) : deck2[i] # hist'.c.task
               /\ arch2 # <<>> /\ arch2[1].title = hist'.c.task.title
               /\ later2 = later
          /\ (hist'.op = "undo" /\ undoPayload.set) =>
               /\ \A i \in 1..Len(arch2) : arch2[i].id # undoPayload.archivedId
               /\ SameTask(deck2[1], undoPayload.task)
               /\ later2 = later ]_vars

(* A task that came from the Later list by a surfacing run, was completed  *)
(* and is back on deck by undo, with both other buckets free of it.        *)
C21_Witness ==
  /\ hist.op = "undo"
  /\ hist.imm
  /\ PersistedOnDeck # <<>>
  /\ PersistedOnDeck[1].title = TitleB
  /\ PersistedOnDeck[1].dueDateKey = 2
  /\ PersistedOnDeck[1].plan = "today"
  /\ ~HeldBy(PersistedOnDeck[1], PersistedLater)
  /\ ~HeldBy(PersistedOnDeck[1], PersistedArchive)

(***************************************************************************)
(* The classifiers of a brain-dump line: brainSort.ts for the review       *)
(* screen, inferCategory for the inline review of the home screen.         *)
(***************************************************************************)
(* String.prototype.includes *)
includes(s, w) ==
  \E i \in 0..(Len(s) - Len(w)) : SubSeq(s, i + 1, i + Len(w)) = w

(* words.some((w) => s.includes(w)) *)
containsAny(s, words) == \E w \in words : includes(s, w)

(* guessCategory: its if statements, in order. *)
GuessGroups ==
  << [category |-> "Groceries",
      words |-> { <<"g", "r", "o", "c", "e", "r", "y">>,
                 <<"g", "r", "o", "c", "e", "r", "i", "e", "s">>,
                 <<"c", "o", "s", "t", "c", "o">>,
                 <<"w", "a", "l", "m", "a", "r", "t">>,
                 <<"h", "e", "b">>,
                 <<"t", "a", "r", "g", "e", "t">>,
                 <<"s", "h", "o", "p", "p", "i", "n", "g">>,
                 <<"b", "u", "y", " ">> }],
     [category |-> "Groceries",
      words |-> { <<"m", "i", "l", "k">>,
                 <<"e", "g", "g", "s">>,
                 <<"b", "r", "e", "a", "d">>,
                 <<"c", "h", "i", "c", "k", "e", "n">>,
                 <<"g", "r", "o", "u", "n", "d", " ", "b", "e", "e", "f">>,
                 <<"p", "r", "o", "d", "u", "c", "e">>,
                 <<"s", "n", "a", "c", "k", "s">> }],
     [category |-> "Calls",
      words |-> { <<"c", "a", "l", "l">>,
                 <<"t", "e", "x", "t">>,
                 <<"e", "m", "a", "i", "l">>,
                 <<"d", "m">>,
                 <<"m", "e", "s", "s", "a", "g", "e">>,
                 <<"r", "e", "p", "l", "y">> }],
     [category |-> "Errands",
      words |-> { <<"r", "e", "t", "u", "r", "n">>,
                 <<"p", "i", "c", "k", "u", "p">>,
                 <<"p", "i", "c", "k", " ", "u", "p">>,
                 <<"d", "r", "o", "p", " ", "o", "f", "f">>,
                 <<"p", "o", "s", "t", " ", "o", "f", "f", "i", "c", "e">>,
                 <<"u", "p", "s">>,
                 <<"f", "e", "d", "e", "x">>,
                 <<"s", "h", "i", "p">>,
                 <<"d", "e", "l", "i", "v", "e", "r">> }],
     [category |-> "Kids",
      words |-> { <<"s", "c", "h", "o", "o", "l">>,
                 <<"t", "e", "a", "c", "h", "e", "r">>,
                 <<"p", "e", "r", "m", "i", "s", "s", "i", "o", "n", " ", "s", "l", "i", "p">>,
                 <<"f", "i", "e", "l", "d", " ", "t", "r", "i", "p">>,
                 <<"p", "r", "a", "c", "t", "i", "c", "e">>,
                 <<"g", "a", "m", "e">>,
                 <<"u", "n", "i", "f", "o", "r", "m">>,
                 <<"d", "a", "y", "c", "a", "r", "e">>,
                 <<"p", "e", "d", "i", "a", "t", "r", "i", "c">>,
                 <<"d", "e", "n", "t", "i", "s", "t">> }],
     [category |-> "Home",
      words |-> { <<"l", "a", "u", "n", "d", "r", "y">>,
                 <<"d", "i", "s", "h", "e", "s">>,
                 <<"c", "l", "e", "a", "n">>,
                 <<"v", "a", "c", "u", "u", "m">>,
                 <<"m", "o", "p">>,
                 <<"t", "r", "a", "s", "h">>,
                 <<"k", "i", "t", "c", "h", "e", "n", " ", "r", "e", "s", "e", "t">>,
                 <<"w", "i", "p", "e">>,
                 <<"o", "r", "g", "a", "n", "i", "z", "e">> }],
     [category |-> "Meals",
      words |-> { <<"d", "i", "n", "n", "e", "r">>,
                 <<"m", "e", "a", "l">>,
                 <<"r", "e", "c", "i", "p", "e">>,
                 <<"c", "o", "o", "k">>,
                 <<"p", "r", "e", "p">>,
                 <<"m", "a", "r", "i", "n", "a", "t", "e">> }],
     [category |-> "Admin",
      words |-> { <<"b", "i", "l", "l">>,
                 <<"p", "a", "y">>,
                 <<"i", "n", "v", "o", "i", "c", "e">>,
                 <<"b", "a", "n", "k">>,
                 <<"b", "u", "d", "g", "e", "t">>,
                 <<"r", "e", "n", "e", "w">>,
                 <<"i", "n", "s", "u", "r", "a", "n", "c", "e">>,
                 <<"a", "p", "p", "o", "i", "n", "t", "m", "e", "n", "t">>,
                 <<"s", "c", "h", "e", "d", "u", "l", "e">> }],
     [category |-> "Ideas",
      words |-> { <<"i", "d", "e", "a">>,
                 <<"m", "a", "y", "b", "e">>,
                 <<"w", "o", "u", "l", "d", " ", "b", "e", " ", "n", "i", "c", "e">>,
                 <<"p", "l", "a", "n">> }] >>

(* inferCategory: its if statements, in order. *)
InferGroups ==
  << [category |-> "Calls",
      words |-> { <<"c", "a", "l", "l">>,
                 <<"p", "h", "o", "n", "e">>,
                 <<"t", "e", "x", "t">>,
                 <<"e", "m", "a", "i", "l">>,
                 <<"m", "e", "s", "s", "a", "g", "e">> }],
     [category |-> "Groceries",
      words |-> { <<"g", "r", "o", "c", "e", "r", "y">>,
                 <<"g", "r", "o", "c", "e", "r", "i", "e", "s">>,
                 <<"c", "o", "s", "t", "c", "o">>,
                 <<"w", "a", "l", "m", "a", "r", "t">>,
                 <<"t", "a", "r", "g", "e", "t">>,
                 <<"h", "e", "b">>,
                 <<"k", "r", "o", "g", "e", "r">> }],
     [category |-> "Kids",
      words |-> { <<"k", "i", "d">>,
                 <<"k", "i", "d", "s">>,
                 <<"s", "c", "h", "o", "o", "l">>,
                 <<"t", "e", "a", "c", "h", "e", "r">>,
                 <<"p", "r", "a", "c", "t", "i", "c", "e">>,
                 <<"g", "a", "m", "e">>,
                 <<"d", "a", "y", "c", "a", "r", "e">> }],
     [category |-> "Meals",
      words |-> { <<"d", "i", "n", "n", "e", "r">>,
                 <<"l", "u", "n", "c", "h">>,
                 <<"b", "r", "e", "a", "k", "f", "a", "s", "t">>,
                 <<"m", "e", "a", "l">>,
                 <<"c", "o", "o", "k">>,
                 <<"r", "e", "c", "i", "p", "e">> }],
     [category |-> "Errands",
      words |-> { <<"r", "e", "t", "u", "r", "n">>,
                 <<"e", "r", "r", "a", "n", "d">>,
                 <<"d", "r", "o", "p", " ", "o", "f", "f">>,
                 <<"p", "i", "c", "k", "u", "p">>,
                 <<"p", "o", "s", "t", " ", "o", "f", "f", "i", "c", "e">>,
                 <<"u", "p", "s">>,
                 <<"f", "e", "d", "e", "x">> }],
     [category |-> "Admin",
      words |-> { <<"b", "i", "l", "l">>,
                 <<"i", "n", "v", "o", "i", "c", "e">>,
                 <<"b", "u", "d", "g", "e", "t">>,
                 <<"t", "a", "x">>,
                 <<"p", "a", "p", "e", "r", "w", "o", "r", "k">>,
                 <<"f", "o", "r", "m">>,
                 <<"a", "p", "p", "o", "i", "n", "t", "m", "e", "n", "t">>,
                 <<"r", "e", "n", "e", "w">> }],
     [category |-> "Home",
      words |-> { <<"c", "l", "e", "a", "n">>,
                 <<"l", "a", "u", "n", "d", "r", "y">>,
                 <<"d", "i", "s", "h", "e", "s">>,
                 <<"v", "a", "c", "u", "u", "m">>,
                 <<"m", "o", "p">>,
                 <<"o", "r", "g", "a", "n", "i", "z", "e">>,
                 <<"d", "e", "c", "l", "u", "t", "t", "e", "r">> }] >>

RECURSIVE firstMatch(_, _, _)
firstMatch(groups, s, fallback) ==
  IF groups = <<>> THEN fallback
  ELSE IF containsAny(s, Head(groups).words) THEN Head(groups).category
  ELSE firstMatch(Tail(groups), s, fallback)

guessCategory(title) == firstMatch(GuessGroups, toLowerCase(title), "Someday")

inferCategory(title) == firstMatch(InferGroups, toLowerCase(title), "Ideas")

(* guessBucket: the words of its two if statements. *)
TodayWords ==
  { <<"t", "o", "d", "a", "y">>,
    <<"t", "o", "n", "i", "g", "h", "t">>,
    <<"b", "e", "f", "o", "r", "e", " ", "b", "e", "d">>,
    <<"t", "h", "i", "s", " ", "m", "o", "r", "n", "i", "n", "g">>,
    <<"a", "s", "a", "p">> }

TomorrowWords == { <<"t", "o", "m", "o", "r", "r", "o", "w">> }

guessBucket(title) ==
  LET s == toLowerCase(title)
  IN  IF containsAny(s, TodayWords) THEN "Today"
      ELSE IF containsAny(s, TomorrowWords) THEN "Today"
      ELSE "Later"

(* The lines classified: one word, or two words with a space between, of   *)
(* a word list with a keyword of every group, the urgency words and a word *)
(* that is no keyword.                                                     *)
ClassifyWords ==
  { <<"c", "o", "s", "t", "c", "o">>,
    <<"C", "a", "l", "l">>,
    <<"r", "e", "t", "u", "r", "n">>,
    <<"s", "c", "h", "o", "o", "l">>,
    <<"c", "l", "e", "a", "n">>,
    <<"d", "i", "n", "n", "e", "r">>,
    <<"b", "i", "l", "l">>,
    <<"i", "d", "e", "a">>,
    <<"t", "o", "d", "a", "y">>,
    <<"a", "s", "a", "p">>,
    <<"t", "o", "n", "i", "g", "h", "t">>,
    <<"t", "o", "m", "o", "r", "r", "o", "w">>,
    <<"s", "o", "o", "n">> }

ClassifyLines ==
  ClassifyWords \cup { w \o <<" ">> \o v : w, v \in ClassifyWords }

InitClassify ==
  /\ storage = EmptyStorage
  /\ clock = 1
  /\ archSeq = 0
  /\ Mounted
  /\ todayKey = 1
  /\ hist = Hist("init", 0, 0, FALSE, FALSE, FALSE, FALSE, NoCompletion, {}, FALSE)
  /\ inflight = NoRun
  /\ \E title \in ClassifyLines :
       merge = [kind |-> "idle", new |-> title, existing |-> <<>>, tk |-> 1,
                plan |-> "upnext", out |-> <<>>]

(* merge.new: the line; merge.out: the value returned for it. *)
(* sortBrainDump: category: guessCategory(title) *)
ClassifyGuess ==
  /\ merge.kind = "idle"
  /\ merge' = [merge EXCEPT !.kind = "guessCategory", !.out = guessCategory(merge.new)]
  /\ UNCHANGED appVars

(* openReviewFromBrainDump: category: inferCategory(title) *)
ClassifyInfer ==
  /\ merge.kind = "idle"
  /\ merge' = [merge EXCEPT !.kind = "inferCategory", !.out = inferCategory(merge.new)]
  /\ UNCHANGED appVars

(* sortBrainDump: bucket: guessBucket(title) *)
ClassifyBucket ==
  /\ merge.kind = "idle"
  /\ merge' = [merge EXCEPT !.kind = "guessBucket", !.out = guessBucket(merge.new)]
  /\ UNCHANGED appVars

NextClassify == ClassifyGuess \/ ClassifyInfer \/ ClassifyBucket

SpecClassify == InitClassify /\ [][NextClassify]_vars

(* The order of the groups that the classifier is to follow. *)
GroupOrder ==
  <<"Groceries", "Calls", "Errands", "Kids", "Home", "Meals", "Admin", "Ideas">>

(* The groups, by position in GroupOrder, of which the classifier that ran *)
(* has a keyword in the line.                                              *)
GroupsHit ==
  LET groups == IF merge.kind = "guessCategory" THEN GuessGroups ELSE InferGroups
  IN  { g \in 1..Len(GroupOrder) :
          \E i \in 1..Len(groups) :
            /\ groups[i].category = GroupOrder[g]
            /\ containsAny(toLowerCase(merge.new), groups[i].words) }

(* C22: the category returned for a line is that of the first group, in    *)
(* the order groceries, calls, errands, kids, home, meals, admin, ideas,   *)
(* of which the line holds a keyword, and the catch-all category when it   *)
(* holds none.                                                             *)
C22_FirstGroupInOrderWins ==
  merge.kind \in {"guessCategory", "inferCategory"} =>
    IF GroupsHit = {}
    THEN merge.out \in {"Someday", "Ideas"}
    ELSE merge.out = GroupOrder[CHOOSE g \in GroupsHit : \A h \in GroupsHit : g <= h]

(* The urgency keywords of the bucket guess. *)
UrgencyWords ==
  { <<"t", "o", "d", "a", "y">>, <<"a", "s", "a", "p">>,
    <<"t", "o", "n", "i", "g", "h", "t">> }

(* C23: the bucket guessed for a line is "Today" exactly when the line     *)
(* holds one of the words today, asap, tonight, and "Later" otherwise.     *)
C23_TodayOnlyForUrgencyWords ==
  merge.kind = "guessBucket" =>
    /\ merge.out \in {"Today", "Later"}
    /\ merge.out = "Today" <=> containsAny(toLowerCase(merge.new), UrgencyWords)

(***************************************************************************)
(* The confetti of the Daily Rhythm.                                       *)
(***************************************************************************)
(* C24: the confetti is shown in exactly the steps in which a toggle takes *)
(* the routine from not all done to all done; no launch, load or focus run *)
(* shows it.                                                               *)
C24_ConfettiOnlyOnCompletingToggle ==
  [][ hist'.burst <=>
        /\ hist'.op = "toggle"
        /\ ~allDoneNow(dailyRhythm)
        /\ allDoneNow(dailyRhythm') ]_vars

(***************************************************************************)
(* The handlers step by step.  An async handler runs from one await of a   *)
(* store call to the next; a step is the code up to and including the call *)
(* awaited next, and between two steps of one run any step of another run  *)
(* may happen.  runs holds the suspended runs with their locals.           *)
(***************************************************************************)
NoSnap == [deck |-> None, later |-> None, rhythm |-> None]

(* kind: the handler; pc: the await it is suspended at; task, archivedId,  *)
(* dateKey: locals of completeOnDeck / undoLastComplete; raw: the value    *)
(* its last getItem returned; count: what loadArchiveCountOnly returned;   *)
(* snap: the values the focus effect read.                                 *)
Run(kind, pc, task, archivedId, dateKey, raw, count, snap) ==
  [kind |-> kind, pc |-> pc, task |-> task, archivedId |-> archivedId,
   dateKey |-> dateKey, raw |-> raw, count |-> count, snap |-> snap]

Resume(run, next) == (runs \ {run}) \cup {next}

(* completeOnDeck(taskId) up to its first await: the task is taken out of  *)
(* the list in memory and setItem(onDeck) is called.                       *)
completeBegin(taskId) ==
  /\ loaded
  /\ \E i \in 1..Len(onDeckTasks) : onDeckTasks[i].id = taskId
  /\ LET task == onDeckTasks[CHOOSE i \in 1..Len(onDeckTasks) :
                               /\ onDeckTasks[i].id = taskId
                               /\ \A j \in 1..(i - 1) : onDeckTasks[j].id # taskId]
         next == Filter(onDeckTasks, LAMBDA t : t.id # taskId)
     IN  /\ onDeckTasks' = next
         /\ storage' = [storage EXCEPT !.onDeck = Json(next)]
         /\ runs' = runs \cup {Run("complete", "getArchive", task, 0, NoDue, None, 0,
                                   NoSnap)}
  /\ hist' = HistOp("completeBegin")
  /\ UNCHANGED <<clock, archSeq, laterTasks, dailyRhythm, completedTodayTotal,
                 undoVisible, undoPayload, undoTimerRef, timers, loaded, todayKey,
                 merge, inflight, storageLoadError, hydration, prevAllRhythmDoneRef>>

(* ... the archive entry is built and getItem(archive) is called. *)
completeGetArchive(run) ==
  /\ run \in runs
  /\ run.kind = "complete" /\ run.pc = "getArchive"
  /\ archSeq < MaxArchive
  /\ archSeq' = archSeq + 1
  /\ runs' = Resume(run, [run EXCEPT !.pc = "setArchive", !.archivedId = archSeq + 1,
                                     !.dateKey = clock, !.raw = storage.archive])
  /\ hist' = HistOp("completeGetArchive")
  /\ UNCHANGED <<storage, clock, homeVars, merge, inflight, storageLoadError,
                 hydration, prevAllRhythmDoneRef>>

(* ... setItem(archive) is called with the new entry before what was read. *)
completeSetArchive(run) ==
  /\ run \in runs
  /\ run.kind = "complete" /\ run.pc = "setArchive"
  /\ LET archived == ArchivedTask(run.archivedId, run.task.title, run.task.category,
                                  run.dateKey)
     IN  storage' = [storage EXCEPT
                       !.archive = Json(archiveAfterCompletion(run.raw, archived, FALSE))]
  /\ runs' = Resume(run, [run EXCEPT !.pc = "count"])
  /\ hist' = HistOp("completeSetArchive")
  /\ UNCHANGED <<clock, archSeq, homeVars, merge, inflight, storageLoadError,
                 hydration, prevAllRhythmDoneRef>>

(* ... loadArchiveCountOnly calls getItem(archive). *)
completeCount(run) ==
  /\ run \in runs
  /\ run.kind = "complete" /\ run.pc = "count"
  /\ runs' = Resume(run, [run EXCEPT !.pc = "end",
                                     !.count = loadArchiveCountOnly(storage, todayKey)])
  /\ hist' = HistOp("completeCount")
  /\ UNCHANGED <<storage, clock, archSeq, homeVars, merge, inflight, storageLoadError,
                 hydration, prevAllRhythmDoneRef>>

(* ... computeRecap and showUndo(task, archivedId). *)
completeEnd(run) ==
  /\ run \in runs
  /\ run.kind = "complete" /\ run.pc = "end"
  /\ completedTodayTotal' = computeRecap(run.count, dailyRhythm)
  /\ undoPayload' = UndoPayload(run.task, run.archivedId)
  /\ undoVisible' = TRUE
  /\ timers' = showUndoTimers(timers, undoTimerRef, run.archivedId)
  /\ undoTimerRef' = run.archivedId
  /\ runs' = runs \ {run}
  /\ hist' = HistOp("completeEnd")
  /\ UNCHANGED <<storage, clock, archSeq, onDeckTasks, laterTasks, dailyRhythm, loaded,
                 todayKey, merge, inflight, storageLoadError, hydration,
                 prevAllRhythmDoneRef>>

CompleteSteps ==
  \/ \E taskId \in 1..(MaxDeck + 1) : completeBegin(taskId)
  \/ \E run \in runs : completeGetArchive(run)
  \/ \E run \in runs : completeSetArchive(run)
  \/ \E run \in runs : completeCount(run)
  \/ \E run \in runs : completeEnd(run)

(***************************************************************************)
(* Two completions in quick succession.                                    *)
(***************************************************************************)
InitQuick == InitApp(SeedStorages)

NextQuick == HydrationEffect \/ CompleteSteps

SpecQuick == InitQuick /\ [][NextQuick]_vars

(* C27: when no completion is under way, the persisted on-deck list lacks  *)
(* as many tasks as completions were made, none of them has the title of   *)
(* an entry archived by a completion, and the persisted archive holds the  *)
(* entry of each completion.                                               *)
C27_QuickCompletionsBothLand ==
  (loaded /\ runs = {}) =>
    /\ \A k \in 1..archSeq :
         \E i \in 1..Len(PersistedArchive) : PersistedArchive[i].id = k
    /\ \A i \in 1..Len(PersistedArchive) :
         PersistedArchive[i].id >= 1 =>
           ~TitleOnDeck(PersistedArchive[i].title, PersistedOnDeck)

(***************************************************************************)
(* The focus reconciliation step by step, next to a completion.            *)
(***************************************************************************)
(* The focus effect up to its first await: Promise.all of the getItem of   *)
(* on-deck, Later and routine.                                             *)
focusBegin ==
  /\ ~\E run \in runs : run.kind = "focus"
  /\ runs' = runs \cup
       {Run("focus", "reconcile", NoTask, 0, NoDue, None, 0,
            [deck |-> storage.onDeck, later |-> storage.later,
             rhythm |-> storage.rhythm])}
  /\ hist' = HistOp("focusBegin")
  /\ UNCHANGED <<storage, clock, archSeq, homeVars, merge, inflight, storageLoadError,
                 hydration, prevAllRhythmDoneRef>>

(* ... the values read are parsed and surfaced, written when items moved,  *)
(* and set as state, which the persistence effects write once loaded; then *)
(* loadArchiveCountOnly calls getItem(archive).  A value that does not     *)
(* parse ends the run in its catch.                                        *)
focusReconcileStep(run) ==
  /\ run \in runs
  /\ run.kind = "focus" /\ run.pc = "reconcile"
  /\ LET snap == [storage EXCEPT !.onDeck = run.snap.deck, !.later = run.snap.later,
                                 !.rhythm = run.snap.rhythm]
         r == focusReconcile(snap, clock, todayKey)
         st1 == SurfaceWrites(storage, [moved |-> r.nDue > 0, nextOnDeck |-> r.deck,
                                        nextLater |-> r.later])
     IN  IF focusThrowsEarly(snap) \/ focusThrowsLate(snap)
         THEN /\ runs' = runs \ {run}
              /\ UNCHANGED <<storage, onDeckTasks, laterTasks, dailyRhythm,
                             prevAllRhythmDoneRef>>
              /\ hist' = HistOp("focusReconcile")
         ELSE /\ onDeckTasks' = r.deck
              /\ laterTasks' = r.later
              /\ dailyRhythm' = r.rhythm
              /\ storage' = PersistEffects(st1, loaded, r.deck, r.later, r.rhythm)
              /\ runs' = Resume(run, [run EXCEPT
                                        !.pc = "end",
                                        !.count = loadArchiveCountOnly(st1, todayKey)])
              /\ hist' = [HistOp("focusReconcile") EXCEPT
                            !.nDue = r.nDue, !.nAdded = r.nAdded,
                            !.burst = confettiBurst(loaded, prevAllRhythmDoneRef,
                                                    r.rhythm)]
              /\ prevAllRhythmDoneRef' =
                   rhythmEffectRef(loaded, prevAllRhythmDoneRef, r.rhythm)
  /\ UNCHANGED <<clock, archSeq, completedTodayTotal, undoVisible, undoPayload,
                 undoTimerRef, timers, loaded, todayKey, merge, inflight,
                 storageLoadError, hydration>>

(* ... computeRecap. *)
focusEnd(run) ==
  /\ run \in runs
  /\ run.kind = "focus" /\ run.pc = "end"
  /\ completedTodayTotal' = computeRecap(run.count, dailyRhythm)
  /\ runs' = runs \ {run}
  /\ hist' = HistOp("focusEnd")
  /\ UNCHANGED <<storage, clock, archSeq, onDeckTasks, laterTasks, dailyRhythm,
                 undoVisible, undoPayload, undoTimerRef, timers, loaded, todayKey,
                 merge, inflight, storageLoadError, hydration, prevAllRhythmDoneRef>>

FocusSteps ==
  \/ focusBegin
  \/ \E run \in runs : focusReconcileStep(run)
  \/ \E run \in runs : focusEnd(run)

InitFocusRace == InitApp(SeedStorages)

NextFocusRace == HydrationEffect \/ FocusSteps \/ CompleteSteps

SpecFocusRace == InitFocusRace /\ [][NextFocusRace]_vars

(* C25: when neither a focus run nor a completion is under way, no task of *)
(* the persisted on-deck list has the title of an entry that a completion  *)
(* put in the persisted archive.                                           *)
C25_FocusKeepsCompletion ==
  (loaded /\ runs = {}) =>
    \A i \in 1..Len(PersistedArchive) :
      PersistedArchive[i].id >= 1 =>
        ~TitleOnDeck(PersistedArchive[i].title, PersistedOnDeck)

(***************************************************************************)
(* Hydration that fails, and the stored lists.                             *)
(***************************************************************************)
(* C26: when the 8 s timer ends the hydration while the store holds a      *)
(* valid on-deck list and a valid Later list, the writes that follow       *)
(* loaded being set leave both stored lists as they are.                   *)
C26_TimeoutKeepsStoredLists ==
  [][ ( /\ hist'.op = "timeout"
        /\ storage.onDeck.kind = "json"
        /\ storage.later.kind = "json" )
      => ( /\ storage'.onDeck = storage.onDeck
           /\ storage'.later = storage.later ) ]_vars

(***************************************************************************)
(* Titles on deck across review, surfacing, move, completion and undo.     *)
(***************************************************************************)
(* Stored at launch: one task on deck, and a Later list that is empty or    *)
(* holds one item, due or undated.                                         *)
TitleStorages ==
  { [onDeck |-> Json(SurfaceDeck), later |-> Json(l), rhythm |-> None,
     rhythmLastReset |-> NoneKey, archive |-> None] :
      l \in { <<>>,
              << DraftTask(1, TitleA2, "Ideas", 1) >>,
              << DraftTask(1, TitleB, "Ideas", NoDue) >> } }

(* The review confirms one undated draft, so that a title never comes      *)
(* twice in one confirmation.                                              *)
TitleInputs == { << DraftTask(1, t, "Ideas", NoDue) >> : t \in Titles }

InitTitles == InitApp(TitleStorages)

NextTitles ==
  \/ HydrationEffect
  \/ FocusEffect
  \/ \E idx \in 1..MaxLater, plan \in {"today", "upnext"} : moveToOnDeck(idx, plan)
  \/ \E reviewDrafts \in TitleInputs : addReviewToHomebase(reviewDrafts)
  \/ \E taskId \in 1..(MaxDeck + 1) : completeOnDeck(taskId)
  \/ undoLastComplete
  \/ \E handle \in 1..MaxArchive : UndoTimerFires(handle)

SpecTitles == InitTitles /\ [][NextTitles]_vars

NoTitleTwice(deck) ==
  \A i, j \in 1..Len(deck) :
    i # j => normTitle(deck[i].title) # normTitle(deck[j].title)

(* C28: neither the on-deck list in memory of the loaded app nor the       *)
(* persisted one holds two tasks whose normalized titles are equal.        *)
C28_OnDeckTitlesUnique ==
  /\ NoTitleTwice(PersistedOnDeck)
  /\ loaded => NoTitleTwice(onDeckTasks)

(***************************************************************************)
(* The undo step by step, next to a completion.                            *)
(***************************************************************************)
(* undoLastComplete up to its first await: the payload is taken, the task  *)
(* is put first on deck, setItem(onDeck).  Undo is not tapped again while  *)
(* an undo is under way.                                                   *)
undoBegin ==
  /\ loaded
  /\ undoPayload.set
  /\ ~\E run \in runs : run.kind = "undo"
  /\ LET nextOnDeck == normalizeOnDeckIds(<<undoPayload.task>> \o onDeckTasks)
     IN  /\ Len(nextOnDeck) <= MaxDeck
         /\ onDeckTasks' = nextOnDeck
         /\ storage' = [storage EXCEPT !.onDeck = Json(nextOnDeck)]
  /\ runs' = runs \cup {Run("undo", "getArchive", undoPayload.task,
                            undoPayload.archivedId, NoDue, None, 0, NoSnap)}
  /\ hist' = HistOp("undoBegin")
  /\ UNCHANGED <<clock, archSeq, laterTasks, dailyRhythm, completedTodayTotal,
                 undoVisible, undoPayload, undoTimerRef, timers, loaded, todayKey,
                 merge, inflight, storageLoadError, hydration, prevAllRhythmDoneRef>>

(* ... getItem(archive). *)
undoGetArchive(run) ==
  /\ run \in runs
  /\ run.kind = "undo" /\ run.pc = "getArchive"
  /\ runs' = Resume(run, [run EXCEPT !.pc = "setArchive", !.raw = storage.archive])
  /\ hist' = HistOp("undoGetArchive")
  /\ UNCHANGED <<storage, clock, archSeq, homeVars, merge, inflight, storageLoadError,
                 hydration, prevAllRhythmDoneRef>>

(* ... the list read is filtered and written with setItem(archive); a      *)
(* value that does not parse goes to the empty catch, and the getItem of   *)
(* loadArchiveCountOnly comes next.                                        *)
undoSetArchive(run) ==
  /\ run \in runs
  /\ run.kind = "undo" /\ run.pc = "setArchive"
  /\ IF run.raw.kind = "bad"
     THEN /\ runs' = Resume(run, [run EXCEPT
                                    !.pc = "end",
                                    !.count = loadArchiveCountOnly(storage, todayKey)])
          /\ UNCHANGED storage
     ELSE /\ storage' = [storage EXCEPT
                           !.archive = Json(undoArchive(ParseOr(run.raw, <<>>),
                                                        run.archivedId))]
          /\ runs' = Resume(run, [run EXCEPT !.pc = "count"])
  /\ hist' = HistOp("undoSetArchive")
  /\ UNCHANGED <<clock, archSeq, homeVars, merge, inflight, storageLoadError,
                 hydration, prevAllRhythmDoneRef>>

(* ... loadArchiveCountOnly. *)
undoCount(run) ==
  /\ run \in runs
  /\ run.kind = "undo" /\ run.pc = "count"
  /\ runs' = Resume(run, [run EXCEPT !.pc = "end",
                                     !.count = loadArchiveCountOnly(storage, todayKey)])
  /\ hist' = HistOp("undoCount")
  /\ UNCHANGED <<storage, clock, archSeq, homeVars, merge, inflight, storageLoadError,
                 hydration, prevAllRhythmDoneRef>>

(* ... computeRecap, setUndoVisible(false), setUndoPayload(null),          *)
(* clearTimeout(undoTimerRef.current).                                     *)
undoEnd(run) ==
  /\ run \in runs
  /\ run.kind = "undo" /\ run.pc = "end"
  /\ completedTodayTotal' = computeRecap(run.count, dailyRhythm)
  /\ undoVisible' = FALSE
  /\ undoPayload' = NoPayload
  /\ timers' = timers \ {undoTimerRef}
  /\ runs' = runs \ {run}
  /\ hist' = HistOp("undoEnd")
  /\ UNCHANGED <<storage, clock, archSeq, onDeckTasks, laterTasks, dailyRhythm,
                 undoTimerRef, loaded, todayKey, merge, inflight, storageLoadError,
                 hydration, prevAllRhythmDoneRef>>

UndoSteps ==
  \/ undoBegin
  \/ \E run \in runs : undoGetArchive(run)
  \/ \E run \in runs : undoSetArchive(run)
  \/ \E run \in runs : undoCount(run)
  \/ \E run \in runs : undoEnd(run)

UndoRaceStorages ==
  { [onDeck |-> Json(SeedDeck), later |-> None, rhythm |-> Json(SeedRhythm),
     rhythmLastReset |-> Json(1), archive |-> a] :
      a \in {None, Json(SeedArchive)} }

InitUndoRace == InitApp(UndoRaceStorages)

NextUndoRace ==
  \/ HydrationEffect
  \/ CompleteSteps
  \/ UndoSteps
  \/ \E handle \in 1..MaxArchive : UndoTimerFires(handle)

SpecUndoRace == InitUndoRace /\ [][NextUndoRace]_vars

(* C29: the step that ends an undo, taken while the undo slot holds the    *)
(* payload of another completion than the one being undone, leaves that    *)
(* payload and its pending timer as they are.                              *)
C29_UndoEndSparesNewCompletion ==
  [][ \A run \in runs :
        ( /\ run.kind = "undo" /\ run.pc = "end"
          /\ hist'.op = "undoEnd"
          /\ runs' = runs \ {run}
          /\ undoPayload.set
          /\ undoPayload.archivedId # run.archivedId )
        => ( /\ undoPayload' = undoPayload
             /\ timers' = timers ) ]_vars

(***************************************************************************)
(* The Later screen at mount: its list starts empty in memory; one effect  *)
(* reads the stored list, another writes the list in memory on every       *)
(* change of it, the first render included.  The run record holds the      *)
(* screen: snap.later is the list in memory, raw the value read.           *)
(***************************************************************************)
(* The screen mounts: useState([]), getItem(later) and                     *)
(* setItem(later, "[]") are called, neither has been served.               *)
laterMount ==
  /\ ~\E run \in runs : run.kind = "later"
  /\ runs' = runs \cup {Run("later", "mounted", NoTask, 0, NoDue, None, 0,
                            [NoSnap EXCEPT !.later = Json(<<>>)])}
  /\ hist' = HistOp("laterMount")
  /\ UNCHANGED <<storage, clock, archSeq, homeVars, merge, inflight, storageLoadError,
                 hydration, prevAllRhythmDoneRef>>

(* The store serves the read. *)
laterReadServed(run) ==
  /\ run \in runs
  /\ run.kind = "later" /\ run.pc \in {"mounted", "written"}
  /\ runs' = Resume(run, [run EXCEPT
                            !.pc = IF run.pc = "mounted" THEN "read" ELSE "both",
                            !.raw = storage.later])
  /\ hist' = HistOp("laterRead")
  /\ UNCHANGED <<storage, clock, archSeq, homeVars, merge, inflight, storageLoadError,
                 hydration, prevAllRhythmDoneRef>>

(* The store serves the write of the mount. *)
laterWriteServed(run) ==
  /\ run \in runs
  /\ run.kind = "later" /\ run.pc \in {"mounted", "read", "resolved"}
  /\ storage' = [storage EXCEPT !.later = Json(<<>>)]
  /\ runs' = Resume(run, [run EXCEPT
                            !.pc = CASE run.pc = "mounted" -> "written"
                                     [] run.pc = "read" -> "both"
                                     [] OTHER -> "rewrite"])
  /\ hist' = HistOp("laterWrite")
  /\ UNCHANGED <<clock, archSeq, homeVars, merge, inflight, storageLoadError,
                 hydration, prevAllRhythmDoneRef>>

(* The load effect goes on after its await: setLater of the list read, or  *)
(* of [] when nothing was stored or the value does not parse; the persist  *)
(* effect calls setItem with the new list.                                 *)
laterLoadResolves(run) ==
  /\ run \in runs
  /\ run.kind = "later" /\ run.pc \in {"read", "both"}
  /\ runs' = Resume(run, [run EXCEPT
                            !.pc = IF run.pc = "read" THEN "resolved" ELSE "rewrite",
                            !.snap = [run.snap EXCEPT
                                        !.later = Json(ParseOr(run.raw, <<>>))]])
  /\ hist' = HistOp("laterLoad")
  /\ UNCHANGED <<storage, clock, archSeq, homeVars, merge, inflight, storageLoadError,
                 hydration, prevAllRhythmDoneRef>>

(* The store serves the write of the list that was set; nothing is pending *)
(* any more.                                                               *)
laterRewriteServed(run) ==
  /\ run \in runs
  /\ run.kind = "later" /\ run.pc = "rewrite"
  /\ storage' = [storage EXCEPT !.later = run.snap.later]
  /\ runs' = runs \ {run}
  /\ hist' = HistOp("laterRewrite")
  /\ UNCHANGED <<clock, archSeq, homeVars, merge, inflight, storageLoadError,
                 hydration, prevAllRhythmDoneRef>>

(* The app stops while the screen has calls pending; what the store has    *)
(* not served is dropped.                                                  *)
laterStop ==
  /\ \E run \in runs : run.kind = "later"
  /\ Crash

LaterSteps ==
  \/ laterMount
  \/ \E run \in runs : laterReadServed(run)
  \/ \E run \in runs : laterWriteServed(run)
  \/ \E run \in runs : laterLoadResolves(run)
  \/ \E run \in runs : laterRewriteServed(run)
  \/ laterStop

(* Stored at launch: a Later list of one or two undated items. *)
LaterMountStorages ==
  { [onDeck |-> d, later |-> Json(l), rhythm |-> None, rhythmLastReset |-> NoneKey,
     archive |-> None] :
      d \in {Json(<<>>), Json(SurfaceDeck)},
      l \in { [i \in 1..Len(ts) |-> DraftTask(i, ts[i], DraftCategory(ts[i]), NoDue)]
                : ts \in SeqsUpTo(Titles, MaxLater) \ {<<>>} } }

InitLaterMount == InitApp(LaterMountStorages)

NextLaterMount == HydrationEffect \/ LaterSteps

SpecLaterMount == InitLaterMount /\ [][NextLaterMount]_vars

(* C30: the store held Later items at launch and nothing here removes one; *)
(* whenever the Later screen has no call pending, the persisted Later list *)
(* still holds items.                                                      *)
C30_LaterMountKeepsBacklog ==
  (\A run \in runs : run.kind # "later") => PersistedLater # <<>>

==========================================================================
